---- MODULE Spec2Model ----
(***************************************************************************)
(* Model of the idlewatcher activity monitor (evdev reactor with the       *)
(* ACTIVE / IDLE / EXTENDED state machine, a single timerfd deadline, the  *)
(* state file and the hook directories).  Times are milliseconds of the    *)
(* monotonic clock, as returned by now_ms().                               *)
(***************************************************************************)
EXTENDS Integers, Sequences, FiniteSets, TLC

\* ---------------------------------------------------------------- constants
DEFAULT_IDLE_S == 900
DEFAULT_EXTENDED_S == 3600
DEBOUNCE_MS == 3000
MIN_TIMEOUT_S == 60
MAX_TIMEOUT_S == 43200
\* Dead-zone fractions are held in thousandths of the axis span.
DEFAULT_AXIS_DZ_PCT == 150
MAX_AXIS_DZ_PCT == 900
AXIS_DZ_MIN == 64
AXIS_DZ_BADSPAN == 128
\* Codes of the first and last direction-pad axes (linux/input-event-codes.h).
ABS_HAT0X == 16
ABS_HAT3Y == 23

\* ------------------------------------------------------------------- bounds
\* The clock advances in steps of Quantum ms, up to MaxNow.
Quantum == 1000
MaxNow == 130000
\* Uptime (monotonic clock reading) at which the daemon is launched.
StartTimes == {0, 4000}
\* Values of the idle= and extended= keys of the config file (NoKey: absent).
NoKey == -1000000
IdleInputs == {59, 60}
ExtendedInputs == {60, 61}
\* Content of the state file: NoFile when it does not exist.
NoFile == -1
\* The timerfd is disarmed.
Disarmed == -1
\* No qualifying raw event in the last DEBOUNCE_MS / no pair of close events.
NoEvent == [t |-> -1, acc |-> 0, hk |-> 0, st |-> "none"]
NoPair == [acc |-> -1, hk |-> -1, first_acc |-> -1, first_st |-> "none"]
\* on_activity was not called yet.
NoRaw == -1
\* No function is looked at on its own.
NoCall == [pc |-> "none"]
\* No hook was forked yet.
NoView == [state |-> "none", file |-> NoFile]
\* The scenario of the idle and extended thresholds of 60 s and 120 s.
ScnIdleS == 60
ScnExtendedS == 120
ScnKeyMs == 200000
ScnEndMs == 210000
\* The responsive reactor: input arrives up to FairPulseEndMs, the clock stops
\* at FairEndMs.
FairPulseEndMs == 70000
FairEndMs == 200000

\* The reactor that falls quiet: the clock moves in steps of QuietQuantum,
\* input arrives up to QuietPulseEndMs, the clock stops at QuietEndMs.
QuietQuantum == 2000
QuietPulseEndMs == 190000
QuietEndMs == 320000

\* No handle_input call is running / no fd.
NoFd == -1
\* The fds open() can return for a device (0-2 are the standard streams, 3-5
\* the epoll, timer and inotify fds); open() returns the lowest free one.
DevFds == {6, 7}
\* The event nodes that can appear under /dev/input: event0 is a gamepad
\* (keys, a stick axis, a direction pad), event1 a keyboard or mouse.
Paths == {"event0", "event1"}
\* The absolute-axis codes followed: ABS_X and ABS_HAT0X.
Axes == {0, 16}
\* Values of the ABS_Deadzone key, in thousandths (NoKey: absent).
DzInputs == {NoKey, 50}
\* Pending inotify events the kernel queue is followed up to.
MaxInq == 2
\* on_activity calls of one handle_input call that are counted.
MaxCalls == 2
\* Step of the clock where devices are followed.
DevQuantum == 60000

\* No input event / nothing done yet by a device handler.
NoEv == [type |-> "none", code |-> 0, value |-> 0]
NoHin == [op |-> "none", fd |-> NoFd, ev |-> NoEv, seen |-> FALSE, last |-> 0,
          dz |-> 0, pulsed |-> FALSE, call |-> FALSE, calls |-> 0,
          end |-> "none", ndev |-> 0, after |-> "none"]

\* The hook roots: the primary one and the one hooks_mirror can name.
HOOKS_ROOT == "hooks"
Roots == {"hooks", "mirror"}
Subdirs == {"idle.d", "extended.d", "active.d"}
\* Values of the hooks_mirror key ("": absent or empty).
MirrorInputs == {"", "mirror"}
\* Directories: the names "1", "10", "2" and ".h" with what stat says of
\* them; "hang" is an executable that never terminates, "badexec" one that
\* execl cannot start, "dangling" a link whose stat fails.
EmptyDir == [exists |-> TRUE, entries |-> {}]
MissingDir == [exists |-> FALSE, entries |-> {}]
DirA == [exists |-> TRUE,
         entries |-> {[name |-> <<50>>, kind |-> "exec"],
                      [name |-> <<49, 48>>, kind |-> "hang"],
                      [name |-> <<49>>, kind |-> "noexec"],
                      [name |-> <<46, 104>>, kind |-> "exec"]}]
DirB == [exists |-> TRUE,
         entries |-> {[name |-> <<50>>, kind |-> "exec"],
                      [name |-> <<49, 48>>, kind |-> "dangling"],
                      [name |-> <<49>>, kind |-> "badexec"],
                      [name |-> <<51>>, kind |-> "dir"]}]
NoHooks == [r \in Roots |-> [d \in Subdirs |-> EmptyDir]]
\* What the two roots hold, each of a root's three directories alike.
HookPairs == {<<DirB, DirA>>, <<DirA, DirB>>, <<MissingDir, DirB>>,
              <<EmptyDir, MissingDir>>}
HookTrees ==
  {[r \in Roots |-> [d \in Subdirs |-> IF r = HOOKS_ROOT THEN t[1] ELSE t[2]]] :
     t \in HookPairs}

States == {"ACTIVE", "IDLE", "EXTENDED"}

VARIABLES
  pc,                \* "start": main has not run yet; "loop": in the event loop
  now,               \* the monotonic clock, ms
  state,             \* RT.state
  last_activity_ms,  \* RT.last_activity_ms
  last_pulse_ms,     \* RT.last_pulse_ms
  idle_s,            \* RT.idle_s
  extended_s,        \* RT.extended_s
  tfd_expiry,        \* absolute expiry of the one-shot timerfd, or Disarmed
  tev,               \* epoll_wait returned the timer fd and it is not yet handled
  state_file,        \* content of STATE_FILE: 1, 0 or NoFile
  writes,            \* number of write_state calls
  write_failed,      \* some write_state call could not open the file
  hooks,             \* run_hook_roots calls so far, in order
  procs,             \* hook children forked so far, in order
  hook_view,         \* RT.state and the state file as the latest hooks were forked
  HOOKS_MIRROR,      \* the configured mirror root, "" when there is none
  hookfs,            \* content of the hook directories of each root
  absinfo,           \* the kernel's EVIOCGABS answer for each node and axis
  fcall,             \* a function called on its own: arguments, position, result
  last_op,           \* the step that produced this state
  pre_state,         \* RT.state before that step
  recent,            \* latest qualifying raw event younger than DEBOUNCE_MS
  last_raw_ms,       \* clock at the latest call of on_activity, or NoRaw
  pair,              \* totals of the latest two raw events when < DEBOUNCE_MS apart
  AXIS_DZ_PCT,       \* runtime dead-zone fraction, thousandths
  devices,           \* RT.devices
  subs,              \* device fds in the interest list of RT.epfd
  open_fds,          \* device fds that are open
  nodes,             \* event nodes that exist under /dev/input
  inq,               \* events queued on the inotify fd, oldest first
  hfd,               \* fd of the handle_input call that is running, or NoFd
  pulsed,            \* the local of that call
  hin,               \* what this step did, when a device handler took it
  batd,              \* the battery daemon of part_001: its locals, flags and files
  vbat               \* the voltage-only battery daemon: its locals, flags and files

\* What is set before the event loop starts, or from outside, other than the
\* dead-zone fraction.
envvars == <<HOOKS_MIRROR, hookfs, absinfo, fcall, batd, vbat>>

\* What a hot-plug or input handler may touch besides the state machine.
devvars == <<AXIS_DZ_PCT, devices, subs, open_fds, nodes, inq, hfd, pulsed, hin>>

vars == <<pc, now, state, last_activity_ms, last_pulse_ms, idle_s, extended_s,
          tfd_expiry, tev, state_file, writes, write_failed, hooks, procs, hook_view,
          last_op, pre_state, recent, last_raw_ms, pair,
          AXIS_DZ_PCT, devices, subs, open_fds, nodes, inq, hfd, pulsed, hin,
          HOOKS_MIRROR, hookfs, absinfo, fcall, batd, vbat>>

\* The idle watcher's variables, but for the call looked at on its own.
idlevars_but_fcall ==
  <<pc, now, state, last_activity_ms, last_pulse_ms, idle_s, extended_s,
    tfd_expiry, tev, state_file, writes, write_failed, hooks, procs, hook_view,
    last_op, pre_state, recent, last_raw_ms, pair,
    AXIS_DZ_PCT, devices, subs, open_fds, nodes, inq, hfd, pulsed, hin,
    HOOKS_MIRROR, hookfs, absinfo>>

\* What a step of a battery daemon leaves alone besides the other daemon:
\* the battery daemons are other processes.
idlevars == <<idlevars_but_fcall, fcall>>

\* ------------------------------------------------------------------ config
\* parse_pos_int without the upper limit.
parse_pos_int_unlimited(v) ==
  IF v < 0 THEN -1 ELSE v

parse_pos_int(v) ==
  IF v < 0 \/ v > MAX_TIMEOUT_S THEN -1 ELSE v

\* <<idle_s, extended_s>> for a config file with idle=ci and extended=ce.
read_config_or_defaults(ci, ce) ==
  LET i0 == IF ci # NoKey /\ parse_pos_int(ci) >= MIN_TIMEOUT_S
            THEN parse_pos_int(ci) ELSE DEFAULT_IDLE_S
      e0 == IF ce # NoKey /\ parse_pos_int(ce) >= MIN_TIMEOUT_S
            THEN parse_pos_int(ce) ELSE DEFAULT_EXTENDED_S
  IN <<IF i0 < MIN_TIMEOUT_S THEN MIN_TIMEOUT_S ELSE i0,
       IF e0 < MIN_TIMEOUT_S THEN MIN_TIMEOUT_S ELSE e0>>

\* ------------------------------------------------------ hooks and state file
\* A write that stores 1 for every state but IDLE.
write_state_idle_only(s) ==
  /\ writes' = writes + 1
  /\ \E ok \in BOOLEAN :
       IF ok THEN /\ state_file' = (IF s = "IDLE" THEN 0 ELSE 1)
                  /\ write_failed' = write_failed
             ELSE /\ state_file' = state_file
                  /\ write_failed' = TRUE

\* fopen(STATE_FILE, "w") may fail; the file is then left as it was.
write_state(s) ==
  /\ writes' = writes + 1
  /\ \E ok \in BOOLEAN :
       IF ok THEN /\ state_file' = (IF s = "ACTIVE" THEN 1 ELSE 0)
                  /\ write_failed' = write_failed
             ELSE /\ state_file' = state_file
                  /\ write_failed' = TRUE

\* File names are strings of bytes; a name that starts with '.' is hidden.
Hidden(name) == name[1] = 46

\* std::string's operator<: byte-wise lexicographic order.
LexLess(a, b) ==
  \E k \in 0..Len(a) :
    /\ k <= Len(b)
    /\ \A i \in 1..k : a[i] = b[i]
    /\ \/ k = Len(a) /\ k < Len(b)
       \/ k < Len(a) /\ k < Len(b) /\ a[k + 1] < b[k + 1]

\* std::sort of the names collected from a directory.
RECURSIVE sort_items(_)
sort_items(S) ==
  IF S = {} THEN <<>>
  ELSE LET m == CHOOSE x \in S : \A y \in S \ {x} : LexLess(x, y)
       IN <<m>> \o sort_items(S \ {m})

\* The entry of a directory with this name.
EntryOf(dir, name) == CHOOSE e \in dir.entries : e.name = name

\* stat succeeds, the file is regular and its owner may execute it.
Launchable(e) == e.kind \in {"exec", "hang", "badexec"}

\* The children run_folder forks for a list of names.
RECURSIVE fork_items(_, _, _, _, _)
fork_items(dir, items, root, subdir, arg) ==
  IF items = <<>> THEN <<>>
  ELSE LET e == EntryOf(dir, Head(items))
           rest == fork_items(dir, Tail(items), root, subdir, arg)
       IN IF Launchable(e)
          THEN <<[root |-> root, subdir |-> subdir, name |-> e.name,
                  arg |-> arg, kind |-> e.kind]>> \o rest
          ELSE rest

\* run_folder that forks in descending order of the names.
RECURSIVE rsort_items(_)
rsort_items(S) ==
  IF S = {} THEN <<>>
  ELSE LET m == CHOOSE x \in S : \A y \in S \ {x} : LexLess(x, y)
       IN rsort_items(S \ {m}) \o <<m>>

run_folder_descending(root, subdir, arg) ==
  LET dir == hookfs[root][subdir]
  IN IF ~dir.exists THEN <<>>
     ELSE fork_items(dir,
                     rsort_items({e.name : e \in {x \in dir.entries : ~Hidden(x.name)}}),
                     root, subdir, arg)

\* The children forked by run_folder(root/subdir, arg), in order.
run_folder(root, subdir, arg) ==
  LET dir == hookfs[root][subdir]
  IN IF ~dir.exists THEN <<>>
     ELSE fork_items(dir,
                     sort_items({e.name : e \in {x \in dir.entries : ~Hidden(x.name)}}),
                     root, subdir, arg)

\* run_hook_roots that waits for each child it forks: it returns only if
\* none of them runs forever.
run_hook_roots_waiting(subdir, arg) ==
  LET forked == run_folder(HOOKS_ROOT, subdir, arg)
                  \o (IF HOOKS_MIRROR # ""
                      THEN run_folder(HOOKS_MIRROR, subdir, arg) ELSE <<>>)
  IN /\ \A i \in 1..Len(forked) : forked[i].kind # "hang"
     /\ hooks' = Append(hooks, [subdir |-> subdir, arg |-> arg])
     /\ procs' = procs \o forked

run_hook_roots(subdir, arg) ==
  /\ hooks' = Append(hooks, [subdir |-> subdir, arg |-> arg])
  /\ procs' = procs \o run_folder(HOOKS_ROOT, subdir, arg)
                    \o (IF HOOKS_MIRROR # ""
                        THEN run_folder(HOOKS_MIRROR, subdir, arg) ELSE <<>>)

\* ------------------------------------------------------ state machine, timer
\* effective_idle_ms that returns the clock, not the time since the last activity.
effective_idle_ms_uptime ==
  IF now > 0 THEN now ELSE 0

\* Reads RT.last_activity_ms as the running handler has left it.
effective_idle_ms ==
  LET delta == now - last_activity_ms'
  IN IF delta > 0 THEN delta ELSE 0

\* arm_timer_ms that keeps a pending deadline that comes earlier.
arm_timer_ms_keep_earlier(ms) ==
  tfd_expiry' = IF ms > 0
                THEN IF tfd_expiry # Disarmed /\ tfd_expiry < now + ms
                     THEN tfd_expiry ELSE now + ms
                ELSE Disarmed

arm_timer_ms(ms) ==
  tfd_expiry' = IF ms > 0 THEN now + ms ELSE Disarmed

\* schedule_timer with the ACTIVE and IDLE deadlines exchanged.
schedule_timer_swapped ==
  LET idle_ms == idle_s' * 1000
      ext_ms == extended_s' * 1000
      eff_since == effective_idle_ms
  IN IF state' = "EXTENDED" THEN arm_timer_ms(0)
     ELSE IF state' = "ACTIVE"
       THEN LET remain == (idle_ms + ext_ms) - eff_since
            IN arm_timer_ms(IF remain > 1 THEN remain ELSE 1)
     ELSE LET remain == idle_ms - eff_since
          IN arm_timer_ms(IF remain > 1 THEN remain ELSE 1)

\* schedule_timer that arms no deadline in IDLE.
schedule_timer_active_only ==
  LET idle_ms == idle_s' * 1000
      remain == idle_ms - effective_idle_ms
  IN IF state' = "ACTIVE"
     THEN arm_timer_ms(IF remain > 1 THEN remain ELSE 1)
     ELSE arm_timer_ms(0)

\* Reads RT.state, RT.idle_s and RT.extended_s as the running handler has left them.
schedule_timer ==
  LET idle_ms == idle_s' * 1000
      ext_ms == extended_s' * 1000
  IN IF state' = "EXTENDED" THEN arm_timer_ms(0)
     ELSE LET eff_since == effective_idle_ms
          IN IF state' = "ACTIVE"
             THEN LET remain == idle_ms - eff_since
                  IN arm_timer_ms(IF remain > 1 THEN remain ELSE 1)
             ELSE IF state' = "IDLE"
             THEN LET remain == (idle_ms + ext_ms) - eff_since
                  IN arm_timer_ms(IF remain > 1 THEN remain ELSE 1)
             ELSE arm_timer_ms(0)

\* No call of enter: RT.state, the state file and the hooks are left alone.
no_transition == UNCHANGED <<state, state_file, writes, write_failed, hooks, procs, hook_view>>

\* enter without the same-state return.
enter_unguarded(to) ==
  /\ state' = to
  /\ write_state(to)
  /\ hook_view' = [state |-> state', file |-> state_file']
  /\ IF to = "ACTIVE" THEN run_hook_roots("active.d", "active")
     ELSE IF to = "IDLE" THEN run_hook_roots("idle.d", "idle")
     ELSE run_hook_roots("extended.d", "extended")

\* enter that runs the idle hooks for EXTENDED too.
enter_idle_hooks(to) ==
  IF to = state
  THEN no_transition
  ELSE /\ state' = to
       /\ write_state(to)
       /\ hook_view' = [state |-> state', file |-> state_file']
       /\ IF to = "ACTIVE" THEN run_hook_roots("active.d", "active")
          ELSE run_hook_roots("idle.d", "idle")

\* enter that runs the hooks before it writes the state file.
enter_hooks_first(to) ==
  IF to = state
  THEN no_transition
  ELSE /\ state' = to
       /\ hook_view' = [state |-> state', file |-> state_file]
       /\ IF to = "ACTIVE" THEN run_hook_roots("active.d", "active")
          ELSE IF to = "IDLE" THEN run_hook_roots("idle.d", "idle")
          ELSE run_hook_roots("extended.d", "extended")
       /\ write_state(to)

\* hook_view is what a hook child finds when it is forked: enter has set
\* RT.state and has called write_state before it calls run_hook_roots.
enter(to) ==
  IF to = state
  THEN no_transition
  ELSE /\ state' = to
       /\ write_state(to)
       /\ hook_view' = [state |-> state', file |-> state_file']
       /\ IF to = "ACTIVE" THEN run_hook_roots("active.d", "active")
          ELSE IF to = "IDLE" THEN run_hook_roots("idle.d", "idle")
          ELSE IF to = "EXTENDED" THEN run_hook_roots("extended.d", "extended")
          ELSE hooks' = hooks /\ procs' = procs

\* on_activity that wakes up from IDLE only.
on_activity_idle_only ==
  IF now - last_pulse_ms < DEBOUNCE_MS
  THEN UNCHANGED <<last_pulse_ms, last_activity_ms, idle_s, extended_s, state,
                   state_file, writes, write_failed, hooks, procs, hook_view, tfd_expiry>>
  ELSE /\ last_pulse_ms' = now
       /\ last_activity_ms' = now
       /\ UNCHANGED <<idle_s, extended_s>>
       /\ IF state = "IDLE" THEN enter("ACTIVE") ELSE no_transition
       /\ schedule_timer

\* on_activity that restarts the idle clock before the debounce test.
on_activity_late_debounce ==
  /\ last_activity_ms' = now
  /\ UNCHANGED <<idle_s, extended_s>>
  /\ IF now - last_pulse_ms < DEBOUNCE_MS
     THEN UNCHANGED <<last_pulse_ms, state, state_file, writes, write_failed,
                      hooks, procs, hook_view, tfd_expiry>>
     ELSE /\ last_pulse_ms' = now
          /\ IF state # "ACTIVE" THEN enter("ACTIVE") ELSE no_transition
          /\ schedule_timer

\* on_activity that compares the debounce interval in seconds.
on_activity_short_debounce ==
  IF now - last_pulse_ms < DEBOUNCE_MS \div 1000
  THEN UNCHANGED <<last_pulse_ms, last_activity_ms, idle_s, extended_s, state,
                   state_file, writes, write_failed, hooks, procs, hook_view, tfd_expiry>>
  ELSE /\ last_pulse_ms' = now
       /\ last_activity_ms' = now
       /\ UNCHANGED <<idle_s, extended_s>>
       /\ IF state # "ACTIVE" THEN enter("ACTIVE") ELSE no_transition
       /\ schedule_timer

\* on_activity whose debounce window restarts at every rejected event.
on_activity_sliding_debounce ==
  IF now - last_pulse_ms < DEBOUNCE_MS
  THEN /\ last_pulse_ms' = now
       /\ UNCHANGED <<last_activity_ms, idle_s, extended_s, state,
                      state_file, writes, write_failed, hooks, procs, hook_view, tfd_expiry>>
  ELSE /\ last_pulse_ms' = now
       /\ last_activity_ms' = now
       /\ UNCHANGED <<idle_s, extended_s>>
       /\ IF state # "ACTIVE" THEN enter("ACTIVE") ELSE no_transition
       /\ schedule_timer

\* on_activity whose rejected events restart the idle countdown.
on_activity_rejected_restarts ==
  IF now - last_pulse_ms < DEBOUNCE_MS
  THEN /\ last_activity_ms' = now
       /\ UNCHANGED <<last_pulse_ms, idle_s, extended_s>>
       /\ no_transition
       /\ schedule_timer
  ELSE /\ last_pulse_ms' = now
       /\ last_activity_ms' = now
       /\ UNCHANGED <<idle_s, extended_s>>
       /\ IF state # "ACTIVE" THEN enter("ACTIVE") ELSE no_transition
       /\ schedule_timer

on_activity ==
  IF now - last_pulse_ms < DEBOUNCE_MS
  THEN UNCHANGED <<last_pulse_ms, last_activity_ms, idle_s, extended_s, state,
                   state_file, writes, write_failed, hooks, procs, hook_view, tfd_expiry>>
  ELSE /\ last_pulse_ms' = now
       /\ last_activity_ms' = now
       /\ UNCHANGED <<idle_s, extended_s>>
       /\ IF state # "ACTIVE" THEN enter("ACTIVE") ELSE no_transition
       /\ schedule_timer

\* reevaluate with the IDLE comparison inverted.
reevaluate_inverted ==
  /\ UNCHANGED <<last_activity_ms, idle_s, extended_s>>
  /\ LET eff_since == effective_idle_ms
         idle_ms == idle_s * 1000
         ext_ms == extended_s * 1000
     IN IF state = "ACTIVE"
        THEN IF eff_since >= idle_ms THEN enter("IDLE") ELSE no_transition
        ELSE IF state = "IDLE"
        THEN IF eff_since >= idle_ms THEN enter("ACTIVE")
             ELSE IF eff_since >= idle_ms + ext_ms THEN enter("EXTENDED")
             ELSE no_transition
        ELSE IF eff_since < idle_ms THEN enter("ACTIVE") ELSE no_transition
  /\ schedule_timer

\* reevaluate with a strict idle comparison.
reevaluate_strict ==
  /\ UNCHANGED <<last_activity_ms, idle_s, extended_s>>
  /\ LET eff_since == effective_idle_ms
         idle_ms == idle_s * 1000
         ext_ms == extended_s * 1000
     IN IF state = "ACTIVE"
        THEN IF eff_since > idle_ms THEN enter("IDLE") ELSE no_transition
        ELSE IF state = "IDLE"
        THEN IF eff_since < idle_ms THEN enter("ACTIVE")
             ELSE IF eff_since >= idle_ms + ext_ms THEN enter("EXTENDED")
             ELSE no_transition
        ELSE IF eff_since < idle_ms THEN enter("ACTIVE") ELSE no_transition
  /\ schedule_timer

\* reevaluate that walks both thresholds in one call.
reevaluate_skip ==
  /\ UNCHANGED <<last_activity_ms, idle_s, extended_s>>
  /\ LET eff_since == effective_idle_ms
         idle_ms == idle_s * 1000
         ext_ms == extended_s * 1000
     IN IF state = "ACTIVE"
        THEN IF eff_since >= idle_ms + ext_ms THEN enter("EXTENDED")
             ELSE IF eff_since >= idle_ms THEN enter("IDLE") ELSE no_transition
        ELSE IF state = "IDLE"
        THEN IF eff_since < idle_ms THEN enter("ACTIVE")
             ELSE IF eff_since >= idle_ms + ext_ms THEN enter("EXTENDED")
             ELSE no_transition
        ELSE IF eff_since < idle_ms THEN enter("ACTIVE") ELSE no_transition
  /\ schedule_timer

\* reevaluate that leaves ACTIVE for EXTENDED at once.
reevaluate_no_idle ==
  /\ UNCHANGED <<last_activity_ms, idle_s, extended_s>>
  /\ LET eff_since == effective_idle_ms
         idle_ms == idle_s * 1000
     IN IF state = "ACTIVE"
        THEN IF eff_since >= idle_ms THEN enter("EXTENDED") ELSE no_transition
        ELSE IF eff_since < idle_ms THEN enter("ACTIVE") ELSE no_transition
  /\ schedule_timer

reevaluate ==
  /\ UNCHANGED <<last_activity_ms, idle_s, extended_s>>
  /\ LET eff_since == effective_idle_ms
         idle_ms == idle_s * 1000
         ext_ms == extended_s * 1000
     IN IF state = "ACTIVE"
        THEN IF eff_since >= idle_ms THEN enter("IDLE") ELSE no_transition
        ELSE IF state = "IDLE"
        THEN IF eff_since < idle_ms THEN enter("ACTIVE")
             ELSE IF eff_since >= idle_ms + ext_ms THEN enter("EXTENDED")
             ELSE no_transition
        ELSE IF eff_since < idle_ms THEN enter("ACTIVE") ELSE no_transition
  /\ schedule_timer

\* ----------------------------------------------------------------- devices
Abs(x) == IF x < 0 THEN -x ELSE x

is_hat_abs(code) == code >= ABS_HAT0X /\ code <= ABS_HAT3Y

\* AXIS_DZ_PCT for a config file with ABS_Deadzone=cd (thousandths).
read_abs_deadzone(cd) ==
  IF cd = NoKey THEN DEFAULT_AXIS_DZ_PCT
  ELSE LET v1 == IF cd > 1000 THEN cd \div 100 ELSE cd
           v2 == IF v1 < 0 THEN 0 ELSE v1
       IN IF v2 > MAX_AXIS_DZ_PCT THEN MAX_AXIS_DZ_PCT ELSE v2

\* The kernel's answers to EVIOCGABS when event0 is the gamepad: it reports
\* its stick as 0..1023 and its direction pad as -1..1; a device without
\* absolute axes fails the ioctl.
GamepadInfo ==
  [path \in Paths |->
     [code \in Axes |->
        IF path = "event0"
        THEN IF is_hat_abs(code)
             THEN [ok |-> TRUE, minimum |-> -1, maximum |-> 1]
             ELSE [ok |-> TRUE, minimum |-> 0, maximum |-> 1023]
        ELSE [ok |-> FALSE, minimum |-> 0, maximum |-> 0]]]

\* The kernel's answer to EVIOCGABS(code) on an fd of the node.
AbsInfo(path, code) == absinfo[path][code]

\* A Dev as its constructor leaves it.
NewDev(fd, path) ==
  [fd |-> fd, path |-> path,
   abs_last |-> [c \in Axes |-> 0], abs_seen |-> [c \in Axes |-> FALSE],
   abs_min |-> [c \in Axes |-> 0], abs_max |-> [c \in Axes |-> 0],
   abs_dz |-> [c \in Axes |-> 0]]

\* lround(span * pct) for a span >= 0, pct in thousandths.
lround_pct(span, pct) == (span * pct + 500) \div 1000

\* init_abs_info that trusts the reported span: no floor, no fallback.
init_abs_info_trusting(d, pct) ==
  LET ai(code) == AbsInfo(d.path, code)
      dz(code) ==
        IF ~ai(code).ok \/ is_hat_abs(code) THEN 0
        ELSE lround_pct(Abs(ai(code).maximum - ai(code).minimum), pct)
  IN [d EXCEPT !.abs_min = [c \in Axes |-> IF ai(c).ok THEN ai(c).minimum ELSE 0],
               !.abs_max = [c \in Axes |-> IF ai(c).ok THEN ai(c).maximum ELSE 0],
               !.abs_dz = [c \in Axes |-> dz(c)]]

init_abs_info(d, pct) ==
  LET ai(code) == AbsInfo(d.path, code)
      dz(code) ==
        IF ~ai(code).ok \/ is_hat_abs(code) THEN 0
        ELSE LET span == ai(code).maximum - ai(code).minimum
             IN IF span > 0
                THEN IF lround_pct(span, pct) < AXIS_DZ_MIN
                     THEN AXIS_DZ_MIN ELSE lround_pct(span, pct)
                ELSE AXIS_DZ_BADSPAN
  IN [d EXCEPT !.abs_min = [c \in Axes |-> IF ai(c).ok THEN ai(c).minimum ELSE 0],
               !.abs_max = [c \in Axes |-> IF ai(c).ok THEN ai(c).maximum ELSE 0],
               !.abs_dz = [c \in Axes |-> dz(c)]]

\* Index (from 1) of the first device with this fd, 0 when there is none.
dev_index_by_fd(devs, fd) ==
  IF \E i \in 1..Len(devs) : devs[i].fd = fd
  THEN CHOOSE i \in 1..Len(devs) :
         /\ devs[i].fd = fd
         /\ \A j \in 1..(i - 1) : devs[j].fd # fd
  ELSE 0

dev_index_by_path(devs, path) ==
  IF \E i \in 1..Len(devs) : devs[i].path = path
  THEN CHOOSE i \in 1..Len(devs) :
         /\ devs[i].path = path
         /\ \A j \in 1..(i - 1) : devs[j].path # path
  ELSE 0

\* vector::erase of the element at index idx.
erase(devs, idx) == SubSeq(devs, 1, idx - 1) \o SubSeq(devs, idx + 1, Len(devs))

\* The registry with its kernel side: R.devices, the epoll interest list
\* R.subs and the open fds R.open.
Registry == [devices |-> devices, subs |-> subs, open |-> open_fds]

\* del_dev_fd that erases the front of the registry instead of the index found.
del_dev_fd_front(R, fd) ==
  LET idx == dev_index_by_fd(R.devices, fd)
  IN IF idx > 0
     THEN [devices |-> erase(R.devices, 1),
           subs |-> R.subs \ {R.devices[idx].fd},
           open |-> R.open \ {R.devices[idx].fd}]
     ELSE R

del_dev_fd(R, fd) ==
  LET idx == dev_index_by_fd(R.devices, fd)
  IN IF idx > 0
     THEN [devices |-> erase(R.devices, idx),
           subs |-> R.subs \ {R.devices[idx].fd},
           open |-> R.open \ {R.devices[idx].fd}]
     ELSE R

del_dev(R, path) ==
  LET idx == dev_index_by_path(R.devices, path)
  IN IF idx > 0
     THEN [devices |-> erase(R.devices, idx),
           subs |-> R.subs \ {R.devices[idx].fd},
           open |-> R.open \ {R.devices[idx].fd}]
     ELSE R

\* What open() and epoll_ctl do for one add_dev call.
Outcomes == {"ok", "open_fails", "epoll_fails"}

\* add_dev that keeps the device when epoll_ctl fails, instead of closing it.
add_dev_keep_unsubscribed(R, path, ns, pct, res) ==
  LET free == DevFds \ R.open
  IN IF path \notin ns \/ free = {} \/ res = "open_fails" THEN R
     ELSE LET fd == CHOOSE f \in free : \A g \in free : f <= g
          IN [devices |-> Append(R.devices,
                                 init_abs_info(NewDev(fd, path), pct)),
              subs |-> IF res = "epoll_fails" THEN R.subs ELSE R.subs \cup {fd},
              open |-> R.open \cup {fd}]

\* add_dev(path) while the nodes in ns exist: open() fails when the node is
\* gone, when no fd is free, or for a reason of its own (res).
add_dev(R, path, ns, pct, res) ==
  LET free == DevFds \ R.open
  IN IF path \notin ns \/ free = {} \/ res = "open_fails" THEN R
     ELSE LET fd == CHOOSE f \in free : \A g \in free : f <= g
          IN IF res = "epoll_fails" THEN R
             ELSE [devices |-> Append(R.devices,
                                      init_abs_info(NewDev(fd, path), pct)),
                   subs |-> R.subs \cup {fd},
                   open |-> R.open \cup {fd}]

\* scan_inputs when readdir returns the entries ents, in this order.
RECURSIVE scan_inputs(_, _, _, _, _)
scan_inputs(R, ents, ns, pct, res) ==
  IF ents = <<>> THEN R
  ELSE scan_inputs(add_dev(R, Head(ents), ns, pct, res[Head(ents)]),
                   Tail(ents), ns, pct, res)

\* The inotify branch of the event loop, for the queued events q.
RECURSIVE inotify_read(_, _, _, _, _)
inotify_read(R, q, ns, pct, res) ==
  IF q = <<>> THEN R
  ELSE LET e == Head(q)
           R1 == IF e.mask = "IN_CREATE"
                 THEN add_dev(R, e.name, ns, pct, res[Len(q)]) ELSE R
           R2 == IF e.mask = "IN_DELETE" THEN del_dev(R1, e.name) ELSE R1
       IN inotify_read(R2, Tail(q), ns, pct, res)

\* --------------------------------------------- classification of one event
\* The outcome of one iteration of the loop over the events of a read: the
\* device record, the local pulsed, and whether on_activity is called.
NoChange(dv, p) == [dv |-> dv, pulsed |-> p, call |-> FALSE]

Baseline(dv, code, val) ==
  [dv |-> [dv EXCEPT !.abs_last[code] = val, !.abs_seen[code] = TRUE],
   pulsed |-> FALSE, call |-> FALSE]

Qualifies(dv, code, val) ==
  [dv |-> [dv EXCEPT !.abs_last[code] = val], pulsed |-> TRUE, call |-> TRUE]

\* abs_event with > where the code has >=.
abs_event_strict(dv, e) ==
  LET code == e.code
      val == e.value
      delta == Abs(val - dv.abs_last[code])
      dz == IF dv.abs_dz[code] <= 0 THEN AXIS_DZ_MIN ELSE dv.abs_dz[code]
  IN IF ~dv.abs_seen[code] THEN Baseline(dv, code, val)
     ELSE IF is_hat_abs(code)
          THEN IF delta # 0 THEN Qualifies(dv, code, val) ELSE NoChange(dv, FALSE)
          ELSE IF delta > dz THEN Qualifies(dv, code, val) ELSE NoChange(dv, FALSE)

\* abs_event that passes direction pads through the dead-zone filter too.
abs_event_hat_filtered(dv, e) ==
  LET code == e.code
      val == e.value
      delta == Abs(val - dv.abs_last[code])
      dz == IF dv.abs_dz[code] <= 0 THEN AXIS_DZ_MIN ELSE dv.abs_dz[code]
  IN IF ~dv.abs_seen[code] THEN Baseline(dv, code, val)
     ELSE IF delta >= dz THEN Qualifies(dv, code, val) ELSE NoChange(dv, FALSE)

\* abs_event that treats the first observation like any other.
abs_event_no_baseline(dv, e) ==
  LET code == e.code
      val == e.value
      delta == Abs(val - dv.abs_last[code])
      dz == IF dv.abs_dz[code] <= 0 THEN AXIS_DZ_MIN ELSE dv.abs_dz[code]
      seen == [dv EXCEPT !.abs_seen[code] = TRUE]
  IN IF is_hat_abs(code)
     THEN IF delta # 0 THEN Qualifies(seen, code, val) ELSE NoChange(seen, FALSE)
     ELSE IF delta >= dz THEN Qualifies(seen, code, val) ELSE NoChange(seen, FALSE)

\* abs_event that stores every value it sees as the last one.
abs_event_tracking(dv, e) ==
  LET code == e.code
      val == e.value
      delta == Abs(val - dv.abs_last[code])
      dz == IF dv.abs_dz[code] <= 0 THEN AXIS_DZ_MIN ELSE dv.abs_dz[code]
      stored == [dv EXCEPT !.abs_last[code] = val]
  IN IF ~dv.abs_seen[code] THEN Baseline(dv, code, val)
     ELSE IF is_hat_abs(code)
          THEN IF delta # 0 THEN Qualifies(dv, code, val) ELSE NoChange(stored, FALSE)
          ELSE IF delta >= dz THEN Qualifies(dv, code, val) ELSE NoChange(stored, FALSE)

\* case EV_ABS, reached with pulsed false.
abs_event(dv, e) ==
  LET code == e.code
      val == e.value
      delta == Abs(val - dv.abs_last[code])
      dz == IF dv.abs_dz[code] <= 0 THEN AXIS_DZ_MIN ELSE dv.abs_dz[code]
  IN IF ~dv.abs_seen[code] THEN Baseline(dv, code, val)
     ELSE IF is_hat_abs(code)
          THEN IF delta # 0 THEN Qualifies(dv, code, val) ELSE NoChange(dv, FALSE)
          ELSE IF delta >= dz THEN Qualifies(dv, code, val) ELSE NoChange(dv, FALSE)

\* handle_event without the test of pulsed that drains the rest of the batch.
handle_event_no_drain(dv, p, e) ==
  IF e.type = "EV_SYN" THEN NoChange(dv, p)
  ELSE IF e.type \in {"EV_KEY", "EV_REL"}
       THEN [dv |-> dv, pulsed |-> TRUE, call |-> TRUE]
  ELSE IF e.type = "EV_ABS"
       THEN [abs_event(dv, e) EXCEPT !.pulsed = p \/ @]
  ELSE NoChange(dv, p)

\* handle_event without the EV_REL label.
handle_event_no_rel(dv, p, e) ==
  IF p THEN NoChange(dv, p)
  ELSE IF e.type = "EV_SYN" THEN NoChange(dv, p)
  ELSE IF e.type = "EV_KEY"
       THEN [dv |-> dv, pulsed |-> TRUE, call |-> TRUE]
  ELSE IF e.type = "EV_ABS" THEN abs_event(dv, e)
  ELSE NoChange(dv, p)

\* One iteration of the loop over the events of a read, with pulsed = p.
handle_event(dv, p, e) ==
  IF p THEN NoChange(dv, p)
  ELSE IF e.type = "EV_SYN" THEN NoChange(dv, p)
  ELSE IF e.type \in {"EV_KEY", "EV_REL"}
       THEN [dv |-> dv, pulsed |-> TRUE, call |-> TRUE]
  ELSE IF e.type = "EV_ABS" THEN abs_event(dv, e)
  ELSE NoChange(dv, p)

\* ------------------------------------------------------------------ actions
\* ----------------------------------------- the battery daemon of part_001
BASE_INTERVAL_S == 60
FAST_INTERVAL_S == 10
ALPHA_NUM == 2
ALPHA_DEN == 10
MAX_CHARGE_VOLT_WEIGHT == 30
SNAP_DELTA == 6
RAW0_ARM_THRESHOLD == 10
DEFAULT_V_FULL == 4000
DEFAULT_V_EMPTY == 3250
DEFAULT_V_RAW0 == 3325

\* Iterations of the daemon's loop that are followed.
BatMaxIter == 3

\* int division of C++: the quotient is truncated towards zero (b > 0).
cdiv(a, b) == IF a >= 0 THEN a \div b ELSE -((-a) \div b)

clampi(v, lo, hi) == IF v < lo THEN lo ELSE IF v > hi THEN hi ELSE v

median3(a, b, c) ==
  LET a1 == IF a > b THEN b ELSE a
      b1 == IF a > b THEN a ELSE b
      b2 == IF b1 > c THEN c ELSE b1
  IN IF a1 > b2 THEN a1 ELSE b2

is_charging(st) == st = "Charging" \/ st = "Full"

blend_percent(raw_adj0, voltage_now_mv, m, status) ==
  LET raw_adj == clampi(raw_adj0, 0, 100)
      usev == m.V_FULL > m.V_EMPTY /\ voltage_now_mv > 0
      range == m.V_FULL - m.V_EMPTY
      pos == clampi(voltage_now_mv - m.V_EMPTY, 0, range)
      voltage_percent == IF usev THEN clampi(cdiv(pos * 100, range), 0, 100)
                         ELSE raw_adj
      wv0 == IF usev THEN clampi(cdiv((range - pos) * 100, range), 5, 95) ELSE 50
      weight_volt == IF is_charging(status) /\ wv0 > MAX_CHARGE_VOLT_WEIGHT
                     THEN MAX_CHARGE_VOLT_WEIGHT ELSE wv0
      weight_raw == 100 - weight_volt
  IN clampi(cdiv(weight_raw * raw_adj + weight_volt * voltage_percent, 100), 0, 100)

\* step_limit of part_001, which takes the status string.
bat_step_limit(last, target, status) ==
  IF last < 0 THEN target
  ELSE IF is_charging(status)
       THEN IF target <= last THEN last
            ELSE IF target <= last + 1 THEN target ELSE last + 1
       ELSE IF target >= last THEN last
            ELSE IF target >= last - 1 THEN target ELSE last - 1

bucket5(percent) == (clampi(percent, 0, 100) \div 5) * 5

\* What one iteration read and did: nothing yet.
NoObs == [status |-> "none", raw_capacity |-> -1, voltage_raw_mv |-> -1,
          v_med |-> -1, target |-> -1, percent |-> -1, snap |-> FALSE,
          hook |-> "none", raw0 |-> "none"]

\* The maps load_map can return: the defaults, or what the file holds.
BatMaps == {[V_FULL |-> DEFAULT_V_FULL, V_EMPTY |-> DEFAULT_V_EMPTY,
             V_RAW0 |-> DEFAULT_V_RAW0],
            [V_FULL |-> 4100, V_EMPTY |-> 3250, V_RAW0 |-> 0]}

\* The daemon when it enters its loop with map m; above and raw0_writes
\* record whether a raw capacity above the arming threshold was read and how
\* often V_RAW0 was written; woken records how the latest sleep ended: with
\* no signal ("no"), with a SIGUSR1 whose flag the sleep loop took ("taken")
\* or with one whose flag it left set ("left").
bat_start(m) ==
  [pc |-> "body", map |-> m, prev1 |-> -1, prev2 |-> -1, ema |-> -1,
   last_percent |-> -1, last_bucket |-> -1,
   raw0_armed |-> FALSE, raw0_written |-> FALSE,
   cur_interval |-> BASE_INTERVAL_S, g_wakeup |-> FALSE,
   percent_file |-> NoFile, map_file |-> m,
   iter |-> 0, above |-> FALSE, raw0_writes |-> 0, woken |-> "no",
   obs |-> NoObs]

BatNotRunning ==
  [bat_start([V_FULL |-> DEFAULT_V_FULL, V_EMPTY |-> DEFAULT_V_EMPTY,
              V_RAW0 |-> DEFAULT_V_RAW0]) EXCEPT !.pc = "off"]

\* One pass of the loop body of main on the daemon b: status, cap and
\* voltage_raw_mv are what the three files give (cap -1: unreadable), ok
\* whether the files written in this pass can be written.
bat_iterate(b, status, cap, voltage_raw_mv, ok) ==
  LET raw_capacity == clampi(cap, 0, 100)
      p1 == IF b.prev1 < 0
            THEN (IF voltage_raw_mv > 0 THEN voltage_raw_mv ELSE b.map.V_FULL)
            ELSE b.prev1
      p2 == IF b.prev2 < 0 THEN p1 ELSE b.prev2
      v_med == median3(p2, p1, IF voltage_raw_mv > 0 THEN voltage_raw_mv ELSE p1)
      ema == IF b.ema < 0 THEN v_med
             ELSE cdiv(ALPHA_NUM * v_med + (ALPHA_DEN - ALPHA_NUM) * b.ema, ALPHA_DEN)
      armed1 == b.raw0_armed
                  \/ (~b.raw0_written /\ raw_capacity >= RAW0_ARM_THRESHOLD)
      sc0 == IF b.map.V_RAW0 > 0 /\ b.map.V_FULL > b.map.V_RAW0
             THEN cdiv(1000 * (b.map.V_FULL - b.map.V_EMPTY),
                       b.map.V_FULL - b.map.V_RAW0)
             ELSE 1000
      scale_mil == IF sc0 <= 0 THEN 1000 ELSE sc0
      raw_adj == clampi(cdiv(raw_capacity * scale_mil, 1000), 0, 100)
      target == blend_percent(raw_adj, ema, b.map, status)
      gap == IF b.last_percent < 0 THEN 0 ELSE Abs(b.last_percent - target)
      snap == b.g_wakeup \/ (b.last_percent >= 0 /\ gap > SNAP_DELTA)
      percent == IF snap THEN target
                 ELSE bat_step_limit(b.last_percent, target, status)
      cur_interval == IF snap THEN BASE_INTERVAL_S
                      ELSE IF ~is_charging(status) /\ gap >= 2 THEN FAST_INTERVAL_S
                      ELSE IF gap <= 1 THEN BASE_INTERVAL_S
                      ELSE b.cur_interval
      full == /\ is_charging(status) /\ raw_capacity >= 99 /\ voltage_raw_mv > 0
              /\ Abs(b.map.V_FULL - voltage_raw_mv) >= 10
      map1 == IF full THEN [b.map EXCEPT !.V_FULL = voltage_raw_mv] ELSE b.map
      learn == /\ armed1 /\ ~b.raw0_written /\ raw_capacity = 0
               /\ ~is_charging(status) /\ v_med > 0
      map2 == IF learn THEN [map1 EXCEPT !.V_RAW0 = v_med] ELSE map1
      guard == /\ armed1 /\ ~learn /\ ~b.raw0_written /\ ~is_charging(status)
               /\ voltage_raw_mv > 0 /\ voltage_raw_mv <= map2.V_EMPTY
      map3 == IF guard THEN [map2 EXCEPT !.V_RAW0 = map2.V_EMPTY] ELSE map2
      bk == bucket5(percent)
  IN [pc |-> "sleep", map |-> map3,
      prev1 |-> IF voltage_raw_mv > 0 THEN voltage_raw_mv ELSE p1,
      prev2 |-> p1, ema |-> ema,
      last_percent |-> percent, last_bucket |-> bk,
      raw0_armed |-> armed1 /\ ~learn /\ ~guard,
      raw0_written |-> b.raw0_written \/ learn \/ guard,
      cur_interval |-> cur_interval, g_wakeup |-> FALSE,
      percent_file |-> IF percent # b.last_percent /\ ok THEN percent
                       ELSE b.percent_file,
      map_file |-> IF (full \/ learn \/ guard) /\ ok THEN map3 ELSE b.map_file,
      iter |-> b.iter + 1, woken |-> b.woken,
      above |-> b.above \/ raw_capacity > RAW0_ARM_THRESHOLD,
      raw0_writes |-> b.raw0_writes + (IF learn \/ guard THEN 1 ELSE 0),
      obs |-> [status |-> status, raw_capacity |-> raw_capacity,
               voltage_raw_mv |-> voltage_raw_mv, v_med |-> v_med,
               target |-> target, percent |-> percent, snap |-> snap,
               hook |-> IF bk = b.last_bucket THEN "none"
                        ELSE IF is_charging(status) THEN "charging"
                        ELSE "discharging",
               raw0 |-> IF learn THEN "learn" ELSE IF guard THEN "guard"
                        ELSE "none"]]

\* ------------------------------------------ the voltage-only battery daemon
INTERNAL_INTERVAL_S == 10
CHARGE_FULL_FALLBACK_TICKS == (30 * 60) \div INTERNAL_INTERVAL_S
LOW_PCT_THRESHOLD == 10
WRITE_INTERVAL == 60
DEFAULT_V_DROOP == 50
MAX_SINGLE_STEP == 50

\* Iterations of the daemon's loop that are followed.
VbMaxIter == 3
\* Iterations that are followed of a run on the charger.
VfMaxIter == 184

\* Natural numbers too large for an int, as their digits to the base
\* BigBase, the lowest first; <<>> is 0.
BigBase == 10000

RECURSIVE BigMulC(_, _, _)
BigMulC(x, k, c) ==
  IF x = <<>>
  THEN IF c = 0 THEN <<>> ELSE <<c % BigBase>> \o BigMulC(<<>>, k, c \div BigBase)
  ELSE LET t == Head(x) * k + c
       IN <<t % BigBase>> \o BigMulC(Tail(x), k, t \div BigBase)

\* x * k^n, for k > 0.
RECURSIVE BigTimes(_, _, _)
BigTimes(x, k, n) == IF n = 0 THEN x ELSE BigTimes(BigMulC(x, k, 0), k, n - 1)

RECURSIVE BigLeqFrom(_, _, _)
BigLeqFrom(x, y, i) ==
  IF i = 0 THEN TRUE
  ELSE IF x[i] # y[i] THEN x[i] < y[i]
  ELSE BigLeqFrom(x, y, i - 1)

BigLeq(x, y) ==
  IF Len(x) # Len(y) THEN Len(x) < Len(y) ELSE BigLeqFrom(x, y, Len(x))

\* lround(pow(a / b, 1.20) * 100.0) for 0 <= a <= b, b > 0: the largest p with
\* ((2p - 1) / 200)^5 <= (a / b)^6.  The two sides are never equal, so the
\* rounding of the doubles does not show.
RECURSIVE gamma_search(_, _, _, _)
gamma_search(lo, hi, B6, A6) ==
  IF lo = hi THEN lo
  ELSE LET mid == (lo + hi + 1) \div 2
       IN IF BigLeq(BigTimes(B6, 2 * mid - 1, 5), A6)
          THEN gamma_search(mid, hi, B6, A6)
          ELSE gamma_search(lo, mid - 1, B6, A6)

gamma_percent(a, b) ==
  IF a <= 0 THEN 0
  ELSE gamma_search(0, 100, BigTimes(<<1>>, b, 6),
                    BigTimes(BigTimes(<<1>>, 200, 5), a, 6))

\* Base droops for which the double product at approx_pct 25 falls just
\* below a half and lround rounds it down.
DroopRoundsDown == {54, 90, 162, 198, 234}

\* LOW_BAND_MAX is 30, FACTOR_MIN 2.0 and SHAPE_EXP 2.0: the factor is
\* 1 + ((30 - approx_pct) / 30)^2 below 30 percent.
compute_dynamic_droop_mv(approx_pct0, m) ==
  LET approx_pct == clampi(approx_pct0, 0, 100)
      range_mv == m.V_FULL - m.V_EMPTY
      base == IF m.V_DROOP > 0 THEN m.V_DROOP ELSE DEFAULT_V_DROOP
      num == IF approx_pct < 30
             THEN base * (900 + (30 - approx_pct) * (30 - approx_pct))
             ELSE base * 900
      droop == IF approx_pct = 25 /\ base \in DroopRoundsDown
               THEN (2 * num + 900) \div 1800 - 1
               ELSE (2 * num + 900) \div 1800
  IN clampi(droop, 10, cdiv(range_mv, 2))

voltage_to_percent(voltage_now_mv, m) ==
  IF voltage_now_mv <= 0 THEN 1
  ELSE
    LET v_empty == m.V_EMPTY
        v_full == m.V_FULL
        droop_mv == clampi(IF m.V_DROOP > 0 THEN m.V_DROOP ELSE DEFAULT_V_DROOP,
                           10, 150)
        vfull_adj == IF v_full - droop_mv <= v_empty + 50
                     THEN v_empty + 50 ELSE v_full - droop_mv
        full_range == v_full - v_empty
        window_mv == clampi((6 * full_range + 100) \div 200, 10, 30)
        v_100_start == IF vfull_adj - window_mv < v_empty + 50
                       THEN v_empty + 50 ELSE vfull_adj - window_mv
        v_clamped == clampi(voltage_now_mv, v_empty, v_100_start)
        range_adj == v_100_start - v_empty
    IN IF voltage_now_mv >= v_100_start THEN 100
       ELSE clampi(IF range_adj > 0 THEN gamma_percent(v_clamped - v_empty, range_adj)
                   ELSE 0, 0, 99)

\* step_limit that moves all the way in the allowed direction.
step_limit_unbounded(last, target, charging) ==
  IF last < 0 THEN target
  ELSE IF charging
       THEN IF target <= last THEN last ELSE target
       ELSE IF target >= last THEN last ELSE target

\* step_limit of batteryplus.cpp; the second daemon of part_001 has the same
\* text.
step_limit(last, target, charging) ==
  IF last < 0 THEN target
  ELSE IF charging
       THEN IF target <= last THEN last
            ELSE IF target <= last + 1 THEN target ELSE last + 1
       ELSE IF target >= last THEN last
            ELSE IF target >= last - 1 THEN target ELSE last - 1

\* The map learn_vfull leaves.
learn_vfull(voltage_raw_mv, voltage_ema_mv, map) ==
  IF voltage_raw_mv <= 0 \/ voltage_ema_mv <= 0 THEN map
  ELSE LET old_vfull == map.V_FULL
           diff0 == voltage_ema_mv - old_vfull
           diff == clampi(diff0, -MAX_SINGLE_STEP, MAX_SINGLE_STEP)
           blended == cdiv(3 * old_vfull + (old_vfull + diff), 4)
           quantized == cdiv(blended + 2, 5) * 5
       IN IF Abs(diff0) < 5 THEN map
          ELSE IF Abs(quantized - old_vfull) >= 5
               THEN [map EXCEPT !.V_FULL = quantized] ELSE map

\* The map learn_vdroop leaves.
learn_vdroop(last_charging_ema_mv, discharge_ema_mv, map) ==
  LET sample_mv == last_charging_ema_mv - discharge_ema_mv
      old_droop == IF map.V_DROOP > 0 THEN map.V_DROOP ELSE DEFAULT_V_DROOP
      bl0 == cdiv(17 * old_droop + 3 * sample_mv, 20)
      bl1 == IF bl0 > old_droop + 10 THEN old_droop + 10 ELSE bl0
      bl2 == IF bl1 < old_droop - 5 THEN old_droop - 5 ELSE bl1
      quantized == cdiv(clampi(bl2, 5, 250) + 2, 5) * 5
  IN IF last_charging_ema_mv <= 0 \/ discharge_ema_mv <= 0 THEN map
     ELSE IF sample_mv <= 1 \/ sample_mv >= 300 THEN map
     ELSE IF Abs(quantized - map.V_DROOP) < 3 THEN map
     ELSE [map EXCEPT !.V_DROOP = quantized]

\* The V_FULL condition without the once-per-run flag.
vfull_due_every_time(vfull_recorded, status_full, timeout_full, voltage_raw_mv) ==
  (status_full \/ timeout_full) /\ voltage_raw_mv > 0

\* The condition under which main calls learn_vfull.
vfull_due(vfull_recorded, status_full, timeout_full, voltage_raw_mv) ==
  ~vfull_recorded /\ (status_full \/ timeout_full) /\ voltage_raw_mv > 0

\* The snap condition that ignores the size of the jump.
snap_due_any_delta(reset, delta_pct) == reset

\* The condition under which a reset forces the write and snaps.
snap_due(reset, delta_pct) == reset /\ delta_pct >= 3

\* The bucket condition that forgets the bucket fired last.
bucket_due_forgetful(visible_percent, last_bucket) == visible_percent % 5 = 0

\* The condition under which a newly written visible percent fires the
\* bucket hooks.
bucket_due(visible_percent, last_bucket) ==
  visible_percent % 5 = 0 /\ visible_percent # last_bucket

\* What one iteration read and did: nothing yet.
VbNoObs == [status |-> "none", voltage_raw_mv |-> -1, reset |-> FALSE,
            first_visible |-> FALSE, voltage_ema_mv |-> -1, timeout_full |-> FALSE,
            delta_pct |-> 0, elapsed_s |-> 0, required_interval |-> 0,
            old_visible |-> -1, old_bucket |-> -1, old_vfull |-> 0,
            wrote |-> FALSE, hooks |-> "none"]

\* The map load_map returns when the file is missing or sane.
VbMaps == {[V_FULL |-> DEFAULT_V_FULL, V_EMPTY |-> DEFAULT_V_EMPTY,
            V_DROOP |-> DEFAULT_V_DROOP]}

\* The daemon when it enters its loop with map m; since is the whole seconds
\* since last_visible_write, counted up to WRITE_INTERVAL; vfull_updates
\* counts the changes of V_FULL.
vb_start(m) ==
  [pc |-> "body", map |-> m, prev1 |-> -1, prev2 |-> -1, ema |-> -1,
   internal_percent |-> -1, visible_percent |-> -1, last_bucket |-> -1,
   last_charging_ema_mv |-> -1, vfull_recorded |-> FALSE,
   charging_streak |-> 0, discharging_streak |-> 0, droop_armed |-> FALSE,
   g_reset |-> FALSE, since |-> 0,
   percent_file |-> NoFile, map_file |-> m,
   iter |-> 0, vfull_updates |-> 0, obs |-> VbNoObs]

VbatNotRunning ==
  [vb_start([V_FULL |-> DEFAULT_V_FULL, V_EMPTY |-> DEFAULT_V_EMPTY,
             V_DROOP |-> DEFAULT_V_DROOP]) EXCEPT !.pc = "off"]

\* The end of a pass of the loop body: the V_FULL update, the write of the
\* visible percent, the bucket hooks and the droop learning, f being what the
\* pass read and filtered and e its estimate.
vb_decide(b, status_str, voltage_raw_mv, ok, f, e) ==
  LET wipe_ema == f.reset /\ (f.first_visible \/ e.delta_pct >= 3)
      wiped == IF voltage_raw_mv > 0 THEN voltage_raw_mv ELSE -1
      learn == vfull_due(b.vfull_recorded, f.status_full, e.timeout_full,
                         voltage_raw_mv)
      map1 == IF learn THEN learn_vfull(voltage_raw_mv, f.voltage_ema_mv, b.map)
              ELSE b.map
      elapsed_s == b.since
      required_interval == IF e.internal_percent <= LOW_PCT_THRESHOLD \/ f.charging
                           THEN WRITE_INTERVAL \div 2 ELSE WRITE_INTERVAL
      need_visible_update ==
        \/ f.first_visible
        \/ /\ e.internal_percent # b.visible_percent
           /\ snap_due(f.reset, e.delta_pct) \/ elapsed_s >= required_interval
      new_visible ==
        IF f.first_visible THEN e.internal_percent
        ELSE IF snap_due(f.reset, e.delta_pct) THEN e.internal_percent
        ELSE step_limit(b.visible_percent, e.internal_percent, f.charging)
      wrote == need_visible_update /\ new_visible # b.visible_percent
      visible_percent == IF wrote THEN new_visible ELSE b.visible_percent
      fired == wrote /\ bucket_due(visible_percent, b.last_bucket)
      learnd == /\ f.armed1 /\ ~f.charging /\ f.discharging_streak >= 3
                /\ b.last_charging_ema_mv > 0 /\ f.v_med > 0
      map2 == IF learnd THEN learn_vdroop(b.last_charging_ema_mv, f.v_med, map1)
              ELSE map1
  IN [pc |-> "sleep", map |-> map2,
      prev1 |-> IF wipe_ema THEN wiped ELSE f.prev1,
      prev2 |-> IF wipe_ema THEN wiped ELSE f.p1,
      ema |-> IF wipe_ema THEN wiped ELSE f.voltage_ema_mv,
      internal_percent |-> e.internal_percent,
      visible_percent |-> visible_percent,
      last_bucket |-> IF fired THEN visible_percent ELSE b.last_bucket,
      last_charging_ema_mv |-> IF f.charging THEN f.voltage_ema_mv
                               ELSE b.last_charging_ema_mv,
      vfull_recorded |-> b.vfull_recorded \/ learn,
      charging_streak |-> f.charging_streak,
      discharging_streak |-> f.discharging_streak,
      droop_armed |-> f.armed1 /\ ~(~f.charging /\ f.discharging_streak >= 3),
      g_reset |-> FALSE,
      since |-> IF wrote THEN 0 ELSE b.since,
      percent_file |-> IF wrote /\ ok THEN visible_percent ELSE b.percent_file,
      map_file |-> IF map2 # b.map /\ ok THEN map2 ELSE b.map_file,
      iter |-> b.iter + 1,
      vfull_updates |-> b.vfull_updates + (IF map1.V_FULL # b.map.V_FULL THEN 1 ELSE 0),
      obs |-> [status |-> status_str, voltage_raw_mv |-> voltage_raw_mv,
               reset |-> f.reset, first_visible |-> f.first_visible,
               voltage_ema_mv |-> f.voltage_ema_mv, timeout_full |-> e.timeout_full,
               delta_pct |-> e.delta_pct, elapsed_s |-> elapsed_s,
               required_interval |-> required_interval,
               old_visible |-> b.visible_percent, old_bucket |-> b.last_bucket,
               old_vfull |-> b.map.V_FULL,
               wrote |-> wrote,
               hooks |-> IF fired THEN "bucket"
                         ELSE IF f.reset THEN "any" ELSE "none"]]

\* The internal percent of a pass from the target the voltage maps to.
vb_internal(b, status_str, voltage_raw_mv, ok, f, target) ==
  LET timeout_full == /\ f.charging /\ target >= 99
                      /\ f.charging_streak >= CHARGE_FULL_FALLBACK_TICKS
      internal_percent ==
        IF f.charging
        THEN IF f.status_full \/ timeout_full THEN 100
             ELSE IF target > 99 THEN 99 ELSE target
        ELSE target
      delta_pct == IF ~f.first_visible /\ b.visible_percent >= 0
                   THEN Abs(internal_percent - b.visible_percent) ELSE 0
  IN vb_decide(b, status_str, voltage_raw_mv, ok, f,
               [target |-> target, timeout_full |-> timeout_full,
                internal_percent |-> internal_percent, delta_pct |-> delta_pct])

\* The voltage a pass maps to a percent: the smoothed voltage, less the
\* droop while charging.
voltage_for_percent(voltage_ema_mv, droop_mv, charging, m) ==
  LET adj0 == voltage_ema_mv - droop_mv
      adj1 == IF adj0 < m.V_EMPTY THEN m.V_EMPTY ELSE adj0
      adjusted == IF adj1 > m.V_FULL THEN m.V_FULL ELSE adj1
  IN IF charging /\ droop_mv > 0 THEN adjusted ELSE voltage_ema_mv

\* The estimate of a pass from what it read and filtered.
vb_estimate(b, status_str, voltage_raw_mv, ok, f) ==
  vb_internal(b, status_str, voltage_raw_mv, ok, f,
    voltage_to_percent(
      voltage_for_percent(
        f.voltage_ema_mv,
        compute_dynamic_droop_mv(
          IF b.visible_percent >= 0 THEN b.visible_percent
          ELSE voltage_to_percent(f.voltage_ema_mv, b.map),
          b.map),
        f.charging, b.map),
      b.map))

\* One pass of the loop body of main on the daemon b: status_str and
\* voltage_raw_mv are what the two files give, ok whether the files written
\* in this pass can be written.
vb_iterate(b, status_str, voltage_raw_mv, ok) ==
  LET status_full == status_str = "Full"
      charging == status_str = "Charging" \/ status_full
      charging_streak == IF charging THEN b.charging_streak + 1 ELSE 0
      discharging_streak == IF charging THEN 0 ELSE b.discharging_streak + 1
      p1 == IF b.prev1 < 0
            THEN (IF voltage_raw_mv > 0 THEN voltage_raw_mv ELSE b.map.V_FULL)
            ELSE b.prev1
      p2 == IF b.prev2 < 0 THEN p1 ELSE b.prev2
      v_med == median3(p2, p1, IF voltage_raw_mv > 0 THEN voltage_raw_mv ELSE p1)
      voltage_ema_mv ==
        IF b.ema < 0 THEN v_med
        ELSE cdiv(ALPHA_NUM * v_med + (ALPHA_DEN - ALPHA_NUM) * b.ema, ALPHA_DEN)
  IN vb_estimate(b, status_str, voltage_raw_mv, ok,
       [status_full |-> status_full, charging |-> charging,
        first_visible |-> b.visible_percent < 0, reset |-> b.g_reset,
        charging_streak |-> charging_streak,
        discharging_streak |-> discharging_streak,
        armed1 |-> b.droop_armed \/ (charging /\ charging_streak >= 3),
        p1 |-> p1,
        prev1 |-> IF voltage_raw_mv > 0 THEN voltage_raw_mv ELSE p1,
        v_med |-> v_med, voltage_ema_mv |-> voltage_ema_mv])

\* A step that is no step of a hot-plug or input handler.
no_device_step ==
  /\ hin' = NoHin
  /\ UNCHANGED <<envvars, AXIS_DZ_PCT, devices, subs, open_fds, nodes, inq, hfd, pulsed>>

ReactorStart ==
  /\ pc = "start"
  /\ now \in StartTimes
  /\ state = "ACTIVE"
  /\ last_activity_ms = 0
  /\ last_pulse_ms = 0
  /\ idle_s = DEFAULT_IDLE_S
  /\ extended_s = DEFAULT_EXTENDED_S
  /\ tfd_expiry = Disarmed
  /\ tev = FALSE
  /\ state_file \in {NoFile, 0}
  /\ writes = 0
  /\ write_failed = FALSE
  /\ hooks = <<>>
  /\ procs = <<>>
  /\ hook_view = NoView
  /\ HOOKS_MIRROR = ""
  /\ last_op = "none"
  /\ pre_state = "ACTIVE"
  /\ recent = NoEvent
  /\ last_raw_ms = NoRaw
  /\ pair = NoPair
  /\ AXIS_DZ_PCT = DEFAULT_AXIS_DZ_PCT
  /\ devices = <<>>
  /\ subs = {}
  /\ open_fds = {}
  /\ inq = <<>>
  /\ hfd = NoFd
  /\ pulsed = FALSE
  /\ hin = NoHin

\* The idle watcher is launched; no battery daemon is looked at.
InitReactor ==
  /\ ReactorStart
  /\ absinfo = GamepadInfo
  /\ fcall = NoCall
  /\ batd = BatNotRunning
  /\ vbat = VbatNotRunning

\* Launched with no event node under /dev/input, and none ever appearing.
Init ==
  /\ InitReactor
  /\ nodes = {}
  /\ hookfs = NoHooks

\* Launched with any of the event nodes present.
DevInit ==
  /\ InitReactor
  /\ nodes \in SUBSET Paths
  /\ hookfs = NoHooks

\* The orders in which readdir can return the entries ns.
Orderings(ns) ==
  {q \in [1..Cardinality(ns) -> ns] :
     \A i, j \in 1..Cardinality(ns) : i # j => q[i] # q[j]}

\* main, up to the first epoll_wait, with idle=ci, extended=ce,
\* ABS_Deadzone=cd and hooks_mirror=cm configured.  The inotify watch is set
\* before scan_inputs runs, so a node that appeared in between is scanned and
\* also queued.
main_setup_cfg(ci, ce, cd, cm) ==
  /\ pc = "start"
  /\ pc' = "loop"
  /\ idle_s' = read_config_or_defaults(ci, ce)[1]
  /\ extended_s' = read_config_or_defaults(ci, ce)[2]
  /\ AXIS_DZ_PCT' = read_abs_deadzone(cd)
  /\ HOOKS_MIRROR' = cm
  /\ last_activity_ms' = now
  /\ write_state("ACTIVE")
  /\ state' = state
  /\ \E ents \in Orderings(nodes), res \in [Paths -> Outcomes] :
       LET R == scan_inputs(Registry, ents, nodes, AXIS_DZ_PCT', res)
       IN /\ devices' = R.devices
          /\ subs' = R.subs
          /\ open_fds' = R.open
  /\ inq' \in {<<>>} \cup {<<[mask |-> "IN_CREATE", name |-> p]>> : p \in nodes}
  /\ schedule_timer
  /\ last_op' = "startup"
  /\ pre_state' = state
  /\ UNCHANGED <<now, last_pulse_ms, tev, hooks, procs, hook_view, recent, last_raw_ms, pair,
                 nodes, hfd, pulsed, hin, hookfs, absinfo,
                 fcall, batd, vbat>>

\* main with no hooks_mirror configured.
main_setup_dev(ci, ce, cd) == main_setup_cfg(ci, ce, cd, "")

\* main, up to the first epoll_wait, with idle=ci and extended=ce configured.
main_setup(ci, ce) == main_setup_dev(ci, ce, NoKey)

Startup == \E ci \in IdleInputs, ce \in ExtendedInputs : main_setup(ci, ce)

\* The timerfd has expired and its expiration has not been read or re-armed.
TimerExpired == tfd_expiry # Disarmed /\ now >= tfd_expiry

\* The clock moves to instant t while the reactor waits or between handlers.
Advance(t) ==
  /\ pc = "loop"
  /\ now' = t
  /\ last_op' = "tick"
  /\ pre_state' = state
  /\ recent' = IF recent # NoEvent /\ t - recent.t < DEBOUNCE_MS
               THEN recent ELSE NoEvent
  /\ pair' = NoPair
  /\ UNCHANGED <<pc, state, last_activity_ms, last_pulse_ms, idle_s, extended_s,
                 tfd_expiry, tev, state_file, writes, write_failed, hooks, procs, hook_view,
                 last_raw_ms>>
  /\ no_device_step

\* Handlers may run arbitrarily late: the clock is free to pass a deadline.
Tick ==
  /\ now + Quantum <= MaxNow
  /\ Advance(now + Quantum)

\* epoll_wait returns the timer fd: it has expired and was not re-armed since.
TimerReady ==
  /\ pc = "loop"
  /\ ~tev
  /\ TimerExpired
  /\ tev' = TRUE
  /\ last_op' = "timer_ready"
  /\ pre_state' = state
  /\ pair' = NoPair
  /\ UNCHANGED <<pc, now, state, last_activity_ms, last_pulse_ms, idle_s,
                 extended_s, tfd_expiry, state_file, writes, write_failed,
                 hooks, procs, hook_view, recent, last_raw_ms>>
  /\ no_device_step

\* The timer branch of the event loop: drain the expiration count, reevaluate.
Reevaluate ==
  /\ pc = "loop"
  /\ tev
  /\ tev' = FALSE
  /\ reevaluate
  /\ last_op' = "reevaluate"
  /\ pre_state' = state
  /\ pair' = NoPair
  /\ UNCHANGED <<pc, now, last_pulse_ms, recent, last_raw_ms>>
  /\ no_device_step

\* A qualifying raw input event reaches on_activity.  recent and pair record
\* what the event was seen to do: acc, the pulse marks moved; hk, hooks run.
OnActivity ==
  /\ pc = "loop"
  /\ on_activity
  /\ last_op' = "on_activity"
  /\ pre_state' = state
  /\ LET acc == IF last_pulse_ms' # last_pulse_ms THEN 1 ELSE 0
         hk == Len(hooks') - Len(hooks)
     IN /\ recent' = [t |-> now, acc |-> acc, hk |-> hk, st |-> state]
        /\ last_raw_ms' = now
        /\ pair' = IF recent # NoEvent
                   THEN [acc |-> recent.acc + acc, hk |-> recent.hk + hk,
                         first_acc |-> recent.acc, first_st |-> recent.st]
                   ELSE NoPair
  /\ UNCHANGED <<pc, now, tev>>
  /\ no_device_step

Next == Startup \/ Tick \/ TimerReady \/ Reevaluate \/ OnActivity

Spec == Init /\ [][Next]_vars

\* ------------------------------------------- a direct call of enter(RT.state)
\* enter is called with the state the machine is already in.
EnterSame ==
  /\ pc = "loop"
  /\ enter(state)
  /\ last_op' = "enter_same"
  /\ pre_state' = state
  /\ pair' = NoPair
  /\ UNCHANGED <<pc, now, last_activity_ms, last_pulse_ms, idle_s, extended_s,
                 tfd_expiry, tev, recent, last_raw_ms>>
  /\ no_device_step

EnterNext == Next \/ EnterSame

EnterSpec == Init /\ [][EnterNext]_vars

\* ------------------------------------- the scenario of 60 s / 120 s / 200 s
\* Launched at clock 0 with idle=60 and extended=120; every timer expiry is
\* handled at its deadline; the only input is one key event at ScnKeyMs.
ScnStartup ==
  /\ now = 0
  /\ main_setup(ScnIdleS, ScnExtendedS)

ScnKeyPending == now <= ScnKeyMs /\ recent = NoEvent

\* The clock moves on only when nothing is ready, and stops at the next
\* instant at which something happens.
ScnTick ==
  /\ ~tev
  /\ ~TimerExpired
  /\ ~(now = ScnKeyMs /\ ScnKeyPending)
  /\ now < ScnEndMs
  /\ LET step == now + Quantum
         t1 == IF tfd_expiry # Disarmed /\ tfd_expiry < step
               THEN tfd_expiry ELSE step
         t2 == IF ScnKeyPending /\ ScnKeyMs < t1 THEN ScnKeyMs ELSE t1
     IN Advance(t2)

ScnKey ==
  /\ now = ScnKeyMs
  /\ ScnKeyPending
  /\ OnActivity

ScnNext == ScnStartup \/ ScnTick \/ TimerReady \/ Reevaluate \/ ScnKey

ScnSpec == Init /\ [][ScnNext]_vars

\* ------------------------------------- the responsive reactor, with fairness
\* Launched with idle=60; the reactor handles whatever is ready before the
\* clock moves on (epoll_wait returns as soon as an fd is ready, and each
\* ready fd is handled); input stops arriving after FairPulseEndMs.
FairStartup == \E ce \in ExtendedInputs : main_setup(MIN_TIMEOUT_S, ce)

FairTick ==
  /\ ~tev
  /\ ~TimerExpired
  /\ now < FairEndMs
  /\ LET step == now + Quantum
     IN Advance(IF tfd_expiry # Disarmed /\ tfd_expiry < step
                THEN tfd_expiry ELSE step)

FairPulse ==
  /\ now <= FairPulseEndMs
  /\ OnActivity

FairNext == FairStartup \/ FairTick \/ TimerReady \/ Reevaluate \/ FairPulse

FairSpec ==
  /\ Init
  /\ [][FairNext]_vars
  /\ WF_vars(FairStartup)
  /\ WF_vars(FairTick)
  /\ WF_vars(TimerReady)
  /\ WF_vars(Reevaluate)

\* ------------------------------------------- the reactor that falls quiet
\* The responsive reactor again, followed long enough for input to come back
\* after EXTENDED was reached and to stop for good afterwards.
QuietTick ==
  /\ ~tev
  /\ ~TimerExpired
  /\ now < QuietEndMs
  /\ LET step == now + QuietQuantum
     IN Advance(IF tfd_expiry # Disarmed /\ tfd_expiry < step
                THEN tfd_expiry ELSE step)

QuietPulse ==
  /\ now <= QuietPulseEndMs
  /\ OnActivity

QuietNext == FairStartup \/ QuietTick \/ TimerReady \/ Reevaluate \/ QuietPulse

QuietSpec ==
  /\ Init
  /\ [][QuietNext]_vars
  /\ WF_vars(FairStartup)
  /\ WF_vars(QuietTick)
  /\ WF_vars(TimerReady)
  /\ WF_vars(Reevaluate)

\* ------------------------------------------------- devices in the reactor
\* The reactor state that a device handler leaves alone unless it pulses.
smvars == <<pc, now, state, last_activity_ms, last_pulse_ms, idle_s, extended_s,
            tfd_expiry, tev, state_file, writes, write_failed, hooks, procs, hook_view>>

Ev(t) == [type |-> t, code |-> 0, value |-> 0]

\* Values an axis reports: around the stick's dead-zone widths of 64 and 153.
AxisValues(code) == IF is_hat_abs(code) THEN {0, 1} ELSE {0, 1, 64, 153}

\* The input events a read of the node's fd can return.
InputEvents(path) ==
  {Ev("EV_KEY"), Ev("EV_REL"), Ev("EV_SYN"), Ev("EV_MSC")}
  \cup (IF path = "event0"
        THEN UNION {{[type |-> "EV_ABS", code |-> c, value |-> v] :
                       v \in AxisValues(c)} : c \in Axes}
        ELSE {})

EventTypes == {"EV_KEY", "EV_REL", "EV_SYN", "EV_MSC", "EV_ABS"}

\* A node appears under /dev/input, or disappears: the watch queues an event.
NodeCreate(p) ==
  /\ pc = "loop"
  /\ hfd = NoFd
  /\ p \notin nodes
  /\ Len(inq) < MaxInq
  /\ nodes' = nodes \cup {p}
  /\ inq' = Append(inq, [mask |-> "IN_CREATE", name |-> p])
  /\ last_op' = "node"
  /\ pre_state' = state
  /\ hin' = NoHin
  /\ UNCHANGED <<smvars, recent, last_raw_ms, pair, envvars, AXIS_DZ_PCT, devices, subs, open_fds,
                 hfd, pulsed>>

NodeDelete(p) ==
  /\ pc = "loop"
  /\ hfd = NoFd
  /\ p \in nodes
  /\ Len(inq) < MaxInq
  /\ nodes' = nodes \ {p}
  /\ inq' = Append(inq, [mask |-> "IN_DELETE", name |-> p])
  /\ last_op' = "node"
  /\ pre_state' = state
  /\ hin' = NoHin
  /\ UNCHANGED <<smvars, recent, last_raw_ms, pair, envvars, AXIS_DZ_PCT, devices, subs, open_fds,
                 hfd, pulsed>>

\* Inotify that counts a hot-plug as user activity.
Inotify_pulsing ==
  /\ pc = "loop"
  /\ hfd = NoFd
  /\ inq # <<>>
  /\ \E res \in [1..Len(inq) -> Outcomes] :
       \* the outcome of add_dev is drawn for the IN_CREATE events only
       /\ \A i \in 1..Len(inq) :
            inq[i].mask # "IN_CREATE" => res[Len(inq) - i + 1] = "ok"
       /\ LET R == inotify_read(Registry, inq, nodes, AXIS_DZ_PCT, res)
          IN /\ devices' = R.devices
             /\ subs' = R.subs
             /\ open_fds' = R.open
  /\ inq' = <<>>
  /\ on_activity
  /\ hin' = [NoHin EXCEPT !.op = "inotify", !.ndev = Len(devices)]
  /\ last_op' = "inotify"
  /\ pre_state' = state
  /\ UNCHANGED <<pc, now, tev, recent, last_raw_ms, pair, envvars, AXIS_DZ_PCT, nodes, hfd, pulsed>>

\* The inotify branch of the event loop: every queued event is read and
\* handled, in order.
Inotify ==
  /\ pc = "loop"
  /\ hfd = NoFd
  /\ inq # <<>>
  /\ \E res \in [1..Len(inq) -> Outcomes] :
       \* the outcome of add_dev is drawn for the IN_CREATE events only
       /\ \A i \in 1..Len(inq) :
            inq[i].mask # "IN_CREATE" => res[Len(inq) - i + 1] = "ok"
       /\ LET R == inotify_read(Registry, inq, nodes, AXIS_DZ_PCT, res)
          IN /\ devices' = R.devices
             /\ subs' = R.subs
             /\ open_fds' = R.open
  /\ inq' = <<>>
  /\ hin' = [NoHin EXCEPT !.op = "inotify", !.ndev = Len(devices)]
  /\ last_op' = "inotify"
  /\ pre_state' = state
  /\ UNCHANGED <<smvars, recent, last_raw_ms, pair, envvars, AXIS_DZ_PCT, nodes, hfd, pulsed>>

\* handle_input(fd) is called and looks the device up.  The batch of an
\* epoll_wait can also hold an fd whose device was removed just before: hin
\* then keeps the handler that ran before (after) and the number of devices
\* an inotify handler found (ndev).
\* handle_input that takes an event for an fd it does not know for activity.
HandleInputBegin_unknown_pulses(fd) ==
  /\ pc = "loop"
  /\ hfd = NoFd
  /\ IF dev_index_by_fd(devices, fd) = 0
     THEN /\ hfd' = NoFd
          /\ hin' = [NoHin EXCEPT !.op = "nodev", !.fd = fd,
                                  !.after = hin.op, !.ndev = hin.ndev]
          /\ on_activity
          /\ UNCHANGED <<pc, now, tev>>
     ELSE /\ hfd' = fd
          /\ hin' = [NoHin EXCEPT !.op = "begin", !.fd = fd]
          /\ UNCHANGED smvars
  /\ pulsed' = FALSE
  /\ last_op' = "handle_input"
  /\ pre_state' = state
  /\ UNCHANGED <<recent, last_raw_ms, pair, envvars, AXIS_DZ_PCT, devices, subs, open_fds,
                 nodes, inq>>

HandleInputBegin(fd) ==
  /\ pc = "loop"
  /\ hfd = NoFd
  /\ IF dev_index_by_fd(devices, fd) = 0
     THEN /\ hfd' = NoFd
          /\ hin' = [NoHin EXCEPT !.op = "nodev", !.fd = fd,
                                  !.after = hin.op, !.ndev = hin.ndev]
     ELSE /\ hfd' = fd
          /\ hin' = [NoHin EXCEPT !.op = "begin", !.fd = fd]
  /\ pulsed' = FALSE
  /\ last_op' = "handle_input"
  /\ pre_state' = state
  /\ UNCHANGED <<smvars, recent, last_raw_ms, pair, envvars, AXIS_DZ_PCT, devices, subs, open_fds,
                 nodes, inq>>

\* The running handle_input call takes the next event a read returned, of
\* one of the given types.
HandleInputEvent(types) ==
  /\ hfd # NoFd
  /\ hin.calls < MaxCalls
  /\ LET idx == dev_index_by_fd(devices, hfd)
         dv == devices[idx]
     IN \E e \in {x \in InputEvents(dv.path) : x.type \in types} :
          LET r == handle_event(dv, pulsed, e)
              isabs == e.type = "EV_ABS"
          IN /\ devices' = [devices EXCEPT ![idx] = r.dv]
             /\ pulsed' = r.pulsed
             /\ IF r.call
                THEN on_activity /\ UNCHANGED <<pc, now, tev>>
                ELSE UNCHANGED smvars
             /\ last_raw_ms' = IF r.call THEN now ELSE last_raw_ms
             /\ hin' = [op |-> "event", fd |-> hfd, ev |-> e,
                        seen |-> isabs /\ dv.abs_seen[e.code],
                        last |-> IF isabs THEN dv.abs_last[e.code] ELSE 0,
                        dz |-> IF isabs THEN dv.abs_dz[e.code] ELSE 0,
                        pulsed |-> pulsed, call |-> r.call,
                        calls |-> hin.calls + (IF r.call THEN 1 ELSE 0),
                        end |-> "none", ndev |-> 0, after |-> "none"]
  /\ last_op' = "handle_input"
  /\ pre_state' = state
  /\ UNCHANGED <<recent, pair, envvars, AXIS_DZ_PCT, subs, open_fds, nodes, inq, hfd>>

\* The running handle_input call gets no more events: read would block
\* (EAGAIN), returns 0 (EOF) or fails (ERR); the call returns.
HandleInputEnd(end) ==
  /\ hfd # NoFd
  /\ LET R == IF end = "EAGAIN" THEN Registry ELSE del_dev_fd(Registry, hfd)
     IN /\ devices' = R.devices
        /\ subs' = R.subs
        /\ open_fds' = R.open
  /\ hfd' = NoFd
  /\ pulsed' = FALSE
  /\ hin' = [NoHin EXCEPT !.op = "end", !.fd = hfd, !.end = end,
                          !.calls = hin.calls]
  /\ last_op' = "handle_input"
  /\ pre_state' = state
  /\ UNCHANGED <<smvars, recent, last_raw_ms, pair, envvars, AXIS_DZ_PCT, nodes, inq>>

ReadEnds == {"EAGAIN", "EOF", "ERR"}

\* ----------------------------------------------- the classifier at work
\* Launched at clock 0 with the gamepad plugged in, which scan_inputs
\* registers; the clock is followed for one debounce interval, in which no
\* deadline is reached and no node comes or goes.
ClsInit ==
  /\ InitReactor
  /\ now = 0
  /\ state_file = NoFile
  /\ nodes = {"event0"}
  /\ hookfs = NoHooks

ClsStartup ==
  /\ \E cd \in DzInputs : main_setup_dev(MIN_TIMEOUT_S, MIN_TIMEOUT_S, cd)
  /\ Len(devices') = 1
  /\ inq' = <<>>

ClsTick ==
  /\ hfd = NoFd
  /\ now < DEBOUNCE_MS
  /\ Advance(now + DEBOUNCE_MS)

ClsBegin == \E fd \in DevFds : HandleInputBegin(fd)

ClsEvent == HandleInputEvent(EventTypes)

ClsEnd == \E end \in ReadEnds : HandleInputEnd(end)

ClsNext == ClsStartup \/ ClsTick \/ ClsBegin \/ ClsEvent \/ ClsEnd

ClsSpec == ClsInit /\ [][ClsNext]_vars

\* ------------------------------------------- gamepads of other descriptors
\* What a device can answer for its stick: the ranges 0..1023, 0..445 and
\* 0..255, the malformed ranges 0..0 and 100..-100, or no answer.
StickInfos ==
  {[ok |-> TRUE, minimum |-> 0, maximum |-> 1023],
   [ok |-> TRUE, minimum |-> 0, maximum |-> 445],
   [ok |-> TRUE, minimum |-> 0, maximum |-> 255],
   [ok |-> TRUE, minimum |-> 0, maximum |-> 0],
   [ok |-> TRUE, minimum |-> 100, maximum |-> -100],
   [ok |-> FALSE, minimum |-> 0, maximum |-> 0]}

\* What it can answer for its direction pad.
HatInfos ==
  {[ok |-> TRUE, minimum |-> -1, maximum |-> 1],
   [ok |-> TRUE, minimum |-> 0, maximum |-> 0],
   [ok |-> FALSE, minimum |-> 0, maximum |-> 0]}

\* The one gamepad of ClsSpec, with any of these descriptors.
CalInit ==
  /\ ReactorStart
  /\ now = 0
  /\ state_file = NoFile
  /\ nodes = {"event0"}
  /\ hookfs = NoHooks
  /\ fcall = NoCall
  /\ batd = BatNotRunning
  /\ vbat = VbatNotRunning
  /\ \E st \in StickInfos, ht \in HatInfos :
       absinfo = [GamepadInfo EXCEPT !["event0"] =
                    [code \in Axes |-> IF is_hat_abs(code) THEN ht ELSE st]]

CalSpec == CalInit /\ [][ClsNext]_vars

\* ------------------------------------------------ hot-plug in the reactor
\* Nodes come and go while the state machine runs; devices send key events.
HotInit ==
  /\ DevInit
  /\ now = 0
  /\ state_file = NoFile

HotStartup == main_setup_dev(MIN_TIMEOUT_S, MIN_TIMEOUT_S, NoKey)

HotTick ==
  /\ hfd = NoFd
  /\ now + DevQuantum <= MaxNow
  /\ Advance(now + DevQuantum)

HotTimerReady == hfd = NoFd /\ TimerReady

HotReevaluate == hfd = NoFd /\ Reevaluate

HotCreate == \E p \in Paths : NodeCreate(p)

HotDelete == \E p \in Paths : NodeDelete(p)

HotBegin == \E fd \in DevFds : HandleInputBegin(fd)

HotEvent == HandleInputEvent({"EV_KEY"})

HotEnd == \E end \in ReadEnds : HandleInputEnd(end)

HotNext ==
  \/ HotStartup
  \/ HotTick
  \/ HotTimerReady
  \/ HotReevaluate
  \/ HotCreate
  \/ HotDelete
  \/ Inotify
  \/ HotBegin
  \/ HotEvent
  \/ HotEnd

HotSpec == HotInit /\ [][HotNext]_vars

\* ------------------------------------------------- the reactor with hooks
\* Launched at clock 0 without devices; the hook directories hold one of the
\* trees and hooks_mirror is configured or not.  One node is plugged in, the
\* clock is followed in steps of the shortest timeout.
HookInit ==
  /\ InitReactor
  /\ now = 0
  /\ state_file = NoFile
  /\ nodes = {}
  /\ hookfs \in HookTrees

HookStartup ==
  \E cm \in MirrorInputs : main_setup_cfg(MIN_TIMEOUT_S, MIN_TIMEOUT_S, NoKey, cm)

HookTick ==
  /\ now + DevQuantum <= MaxNow
  /\ Advance(now + DevQuantum)

HookCreate == NodeCreate("event0")

HookNext ==
  \/ HookStartup
  \/ HookTick
  \/ TimerReady
  \/ Reevaluate
  \/ OnActivity
  \/ HookCreate
  \/ Inotify

HookSpec == HookInit /\ [][HookNext]_vars

\* ------------------------------------------------- the configured timeouts
\* Launched at clock 0 with idle= and extended= absent (NoKey), negative,
\* below the minimum, at the limits or above the maximum.
CfgInputs == {NoKey, -5, 0, 59, 60, 43200, 43201}

CfgInit ==
  /\ Init
  /\ now = 0
  /\ state_file = NoFile

CfgStartup == \E ci \in CfgInputs, ce \in CfgInputs : main_setup(ci, ce)

CfgTick ==
  /\ now + DevQuantum <= MaxNow
  /\ Advance(now + DevQuantum)

CfgNext ==
  \/ CfgStartup
  \/ CfgTick
  \/ TimerReady
  \/ Reevaluate
  \/ OnActivity

CfgSpec == CfgInit /\ [][CfgNext]_vars

\* --------------------------------------- the battery daemon of part_001 runs
BatStatuses == {"Charging", "Discharging"}
\* What the capacity file gives (-1: unreadable) and the voltage file, in mV.
BatCaps == {-1, 0, 10, 99}
BatVolts == {-1, 3200, 3700}

BatInit ==
  /\ ReactorStart
  /\ now = 0
  /\ state_file = NoFile
  /\ nodes = {}
  /\ hookfs = NoHooks
  /\ absinfo = GamepadInfo
  /\ fcall = NoCall
  /\ vbat = VbatNotRunning
  /\ \E m \in BatMaps : batd = bat_start(m)

BatIterate ==
  /\ batd.pc = "body"
  /\ batd.iter < BatMaxIter
  /\ \E status \in BatStatuses, cap \in BatCaps, v \in BatVolts, ok \in BOOLEAN :
       batd' = bat_iterate(batd, status, cap, v, ok)
  /\ UNCHANGED <<idlevars, vbat>>

\* The sleep loop runs through cur_interval seconds; no signal arrives.
BatSleep ==
  /\ batd.pc = "sleep"
  /\ batd' = [batd EXCEPT !.pc = "body", !.woken = "no"]
  /\ UNCHANGED <<idlevars, vbat>>

\* SIGUSR1 arrives while the daemon sleeps.  The sleep loop's exchange takes
\* the flag and ends the sleep, unless the signal comes after the last test
\* of the loop (late) and the flag is left for the loop body.
BatWakeup ==
  /\ batd.pc = "sleep"
  /\ \E late \in BOOLEAN :
       batd' = [batd EXCEPT !.pc = "body", !.g_wakeup = late,
                            !.woken = IF late THEN "left" ELSE "taken"]
  /\ UNCHANGED <<idlevars, vbat>>

BatNext ==
  \/ BatIterate
  \/ BatSleep
  \/ BatWakeup

BatSpec == BatInit /\ [][BatNext]_vars

\* ------------------------------------- the voltage-only battery daemon runs
VbStatuses == {"Charging", "Full", "Discharging"}
VbVolts == {3812, 4100}
\* Seconds of the sleep after which a SIGUSR1 ends it.
ResetAfter == {0, 5}

VbInit ==
  /\ ReactorStart
  /\ now = 0
  /\ state_file = NoFile
  /\ nodes = {}
  /\ hookfs = NoHooks
  /\ absinfo = GamepadInfo
  /\ fcall = NoCall
  /\ batd = BatNotRunning
  /\ \E m \in VbMaps : vbat = vb_start(m)

VbIterate ==
  /\ vbat.pc = "body"
  /\ vbat.iter < VbMaxIter
  /\ \E status \in VbStatuses, v \in VbVolts, ok \in BOOLEAN :
       vbat' = vb_iterate(vbat, status, v, ok)
  /\ UNCHANGED <<idlevars, batd>>

\* The time the daemon has slept d seconds more.
vb_slept(d) == IF vbat.since + d > WRITE_INTERVAL THEN WRITE_INTERVAL
               ELSE vbat.since + d

\* The sleep loop runs through INTERNAL_INTERVAL_S seconds; no signal arrives.
VbSleep ==
  /\ vbat.pc = "sleep"
  /\ vbat' = [vbat EXCEPT !.pc = "body", !.since = vb_slept(INTERNAL_INTERVAL_S)]
  /\ UNCHANGED <<idlevars, batd>>

\* SIGUSR1 arrives during the loop body or the sleep: the sleep loop sees
\* g_reset and ends, the flag stays set for the loop body.
VbReset ==
  /\ vbat.pc = "sleep"
  /\ \E d \in ResetAfter :
       vbat' = [vbat EXCEPT !.pc = "body", !.g_reset = TRUE, !.since = vb_slept(d)]
  /\ UNCHANGED <<idlevars, batd>>

VbNext ==
  \/ VbIterate
  \/ VbSleep
  \/ VbReset

VbSpec == VbInit /\ [][VbNext]_vars

\* ------------------------------- the voltage-only daemon left on the charger
\* The daemon runs on the charger at 4100 mV for half an hour and longer: the
\* status is "Charging" or "Full", the files can be written, no signal comes.
VfIterate ==
  /\ vbat.pc = "body"
  /\ vbat.iter < VfMaxIter
  /\ \E status \in {"Charging", "Full"} : vbat' = vb_iterate(vbat, status, 4100, TRUE)
  /\ UNCHANGED <<idlevars, batd>>

VfNext ==
  \/ VfIterate
  \/ VbSleep

VfSpec == VbInit /\ [][VfNext]_vars

\* ------------------------------------------------- step_limit on its own
\* The percents step_limit is called with: last is -1 before the first
\* write.
StepLast == -1 .. 6
StepTarget == 0 .. 7

\* The calls of the two step_limit functions that are looked at.
StepCalls ==
  {[pc |-> "call", fn |-> "bool", last |-> l, target |-> t, charging |-> c,
    status |-> "none"] : l \in StepLast, t \in StepTarget, c \in BOOLEAN}
  \cup
  {[pc |-> "call", fn |-> "status", last |-> l, target |-> t,
    charging |-> is_charging(st), status |-> st] :
     l \in StepLast, t \in StepTarget, st \in VbStatuses \cup {"Unknown"}}

StepInit ==
  /\ ReactorStart
  /\ now = 0
  /\ state_file = NoFile
  /\ nodes = {}
  /\ hookfs = NoHooks
  /\ absinfo = GamepadInfo
  /\ batd = BatNotRunning
  /\ vbat = VbatNotRunning
  /\ fcall \in StepCalls

\* The call returns.
StepReturn ==
  /\ fcall.pc = "call"
  /\ fcall' = [pc |-> "done", fn |-> fcall.fn, last |-> fcall.last,
               target |-> fcall.target, charging |-> fcall.charging,
               status |-> fcall.status,
               r |-> IF fcall.fn = "bool"
                     THEN step_limit(fcall.last, fcall.target, fcall.charging)
                     ELSE bat_step_limit(fcall.last, fcall.target, fcall.status)]
  /\ UNCHANGED <<idlevars_but_fcall, batd, vbat>>

StepNext == StepReturn

StepSpec == StepInit /\ [][StepNext]_vars

\* ---------------------------------------------- run_hook_file on its own
\* The wait of run_hook_file in batteryplus.cpp.
MAX_MS == 2000
STEP_MS == 50
\* How long a call that has not returned is followed, in ms.
RhfEndMs == 2200

\* The three copies of run_hook_file: batteryplus.cpp and the two daemons of
\* part_001, whose copies have the same text.
RhfVariants == {"batteryplus", "part_001", "part_001_second"}

\* The calls that are looked at: fork succeeds or fails, and the hook exits
\* by itself at some time or never does (hangs).  waited is the local
\* variable of batteryplus.cpp, elapsed the time since the fork.
RhfCalls ==
  {[pc |-> "call", fn |-> "run_hook_file", variant |-> v, fork_ok |-> f,
    hangs |-> h, child |-> "none", waited |-> 0, elapsed |-> 0, r |-> "none"] :
     v \in RhfVariants, f \in BOOLEAN, h \in BOOLEAN}

RhfInit ==
  /\ ReactorStart
  /\ now = 0
  /\ state_file = NoFile
  /\ nodes = {}
  /\ hookfs = NoHooks
  /\ absinfo = GamepadInfo
  /\ batd = BatNotRunning
  /\ vbat = VbatNotRunning
  /\ fcall \in RhfCalls

\* fork: on failure run_hook_file returns -1; the child execs the hook.
RhfFork ==
  /\ fcall.pc = "call"
  /\ fcall' = IF fcall.fork_ok
              THEN [fcall EXCEPT !.pc = "wait", !.child = "running"]
              ELSE [fcall EXCEPT !.pc = "done", !.r = "-1"]
  /\ UNCHANGED <<idlevars_but_fcall, batd, vbat>>

\* The hook exits by itself.
RhfChildExit ==
  /\ fcall.pc = "wait"
  /\ fcall.child = "running"
  /\ ~fcall.hangs
  /\ fcall' = [fcall EXCEPT !.child = "exited"]
  /\ UNCHANGED <<idlevars_but_fcall, batd, vbat>>

\* One turn of the polling loop of batteryplus.cpp: waitpid with WNOHANG
\* reaps the hook if it has exited, and else the parent sleeps STEP_MS.
\* (waitpid cannot fail for a child that was not yet waited for.)
RhfPoll ==
  /\ fcall.pc = "wait"
  /\ fcall.variant = "batteryplus"
  /\ fcall.waited < MAX_MS
  /\ fcall' = IF fcall.child = "exited"
              THEN [fcall EXCEPT !.pc = "done", !.child = "reaped",
                                 !.r = "status"]
              ELSE [fcall EXCEPT !.waited = @ + STEP_MS,
                                 !.elapsed = @ + STEP_MS]
  /\ UNCHANGED <<idlevars_but_fcall, batd, vbat>>

\* The loop of batteryplus.cpp has used its budget: the hook is killed with
\* SIGKILL, which it cannot catch, and reaped.
RhfKill ==
  /\ fcall.pc = "wait"
  /\ fcall.variant = "batteryplus"
  /\ fcall.waited >= MAX_MS
  /\ fcall' = [fcall EXCEPT !.pc = "done", !.child = "reaped", !.r = "-1"]
  /\ UNCHANGED <<idlevars_but_fcall, batd, vbat>>

\* waitpid(pid, &status, 0) of part_001 returns: the hook has exited.
RhfWait ==
  /\ fcall.pc = "wait"
  /\ fcall.variant \in {"part_001", "part_001_second"}
  /\ fcall.child = "exited"
  /\ fcall' = [fcall EXCEPT !.pc = "done", !.child = "reaped", !.r = "status"]
  /\ UNCHANGED <<idlevars_but_fcall, batd, vbat>>

\* Time passes while part_001 is blocked in waitpid.
RhfTick ==
  /\ fcall.pc = "wait"
  /\ fcall.variant \in {"part_001", "part_001_second"}
  /\ fcall.child = "running"
  /\ fcall.elapsed + STEP_MS <= RhfEndMs
  /\ fcall' = [fcall EXCEPT !.elapsed = @ + STEP_MS]
  /\ UNCHANGED <<idlevars_but_fcall, batd, vbat>>

RhfNext ==
  \/ RhfFork
  \/ RhfChildExit
  \/ RhfPoll
  \/ RhfKill
  \/ RhfWait
  \/ RhfTick

\* The daemon takes every step it can take and the clock goes on; nothing
\* makes the hook exit.
RhfSpec ==
  /\ RhfInit
  /\ [][RhfNext]_vars
  /\ WF_vars(RhfFork)
  /\ WF_vars(RhfPoll)
  /\ WF_vars(RhfKill)
  /\ WF_vars(RhfWait)
  /\ WF_vars(RhfTick)

\* ------------------------------------------------------------------- claims
Elapsed == IF now - last_activity_ms > 0 THEN now - last_activity_ms ELSE 0

IdleHook == [subdir |-> "idle.d", arg |-> "idle"]
ExtendedHook == [subdir |-> "extended.d", arg |-> "extended"]
ActiveHook == [subdir |-> "active.d", arg |-> "active"]
HookOf(s) ==
  IF s = "ACTIVE" THEN ActiveHook ELSE IF s = "IDLE" THEN IdleHook ELSE ExtendedHook

\* C1: a call of on_activity made at least DEBOUNCE_MS after the previous
\* accepted pulse returns with the state ACTIVE, whatever it was before; when
\* it was ACTIVE already, nothing is written and no hook is run.
C1_AcceptedPulseIsActive ==
  [][(last_op' = "on_activity" /\ now - last_pulse_ms >= DEBOUNCE_MS)
       => /\ state' = "ACTIVE"
          /\ state = "ACTIVE"
               => /\ hooks' = hooks
                  /\ writes' = writes
                  /\ state_file' = state_file]_vars

\* An accepted pulse has just woken the machine up from EXTENDED.
C1_Witness ==
  /\ last_op = "on_activity"
  /\ pre_state = "EXTENDED"
  /\ last_pulse_ms = now
  /\ state = "ACTIVE"

\* C2: every step that changes the state to ACTIVE is an accepted call of
\* on_activity; a reevaluation never changes the state to ACTIVE.
C2_ActiveOnlyByActivity ==
  [][(state' = "ACTIVE" /\ state # "ACTIVE")
       => /\ last_op' = "on_activity"
          /\ now - last_pulse_ms >= DEBOUNCE_MS]_vars

\* The machine has just left IDLE for ACTIVE.
C2_Witness ==
  /\ pre_state = "IDLE"
  /\ state = "ACTIVE"
  /\ last_op = "on_activity"

\* C3: a reevaluation in ACTIVE leaves the state IDLE when the time since
\* the last accepted pulse (or startup) is at least T_idle, and ACTIVE when
\* it is less.
C3_ActiveToIdleIffElapsed ==
  [][(last_op' = "reevaluate" /\ state = "ACTIVE")
       => /\ Elapsed >= idle_s * 1000 => state' = "IDLE"
          /\ Elapsed < idle_s * 1000 => state' = "ACTIVE"]_vars

\* A reevaluation at exactly T_idle has just moved ACTIVE to IDLE.
C3_Witness ==
  /\ last_op = "reevaluate"
  /\ pre_state = "ACTIVE"
  /\ state = "IDLE"
  /\ Elapsed = idle_s * 1000

\* C4: every step that changes the state to EXTENDED is a reevaluation in
\* IDLE that finds elapsed >= T_idle + T_ext; a reevaluation in ACTIVE never
\* leaves the state EXTENDED.
C4_ExtendedOnlyFromIdle ==
  [][/\ (state' = "EXTENDED" /\ state # "EXTENDED")
          => /\ state = "IDLE"
             /\ last_op' = "reevaluate"
             /\ Elapsed >= (idle_s + extended_s) * 1000
     /\ (last_op' = "reevaluate" /\ state = "ACTIVE") => state' # "EXTENDED"]_vars

\* A late reevaluation in ACTIVE found both thresholds passed and entered IDLE.
C4_Witness ==
  /\ last_op = "reevaluate"
  /\ pre_state = "ACTIVE"
  /\ state = "IDLE"
  /\ Elapsed >= (idle_s + extended_s) * 1000

\* C5: a call of on_activity made less than DEBOUNCE_MS after the previous
\* accepted pulse changes nothing: state, clock marks, timer deadline, state
\* file and hooks.
C5_RejectedPulseDiscarded ==
  [][(last_op' = "on_activity" /\ now - last_pulse_ms < DEBOUNCE_MS)
       => UNCHANGED <<state, last_activity_ms, last_pulse_ms, tfd_expiry,
                      state_file, writes, write_failed, hooks>>]_vars

\* A pulse has just been rejected, later than the pulse it follows.
C5_Witness ==
  /\ last_op = "on_activity"
  /\ recent.acc = 0
  /\ last_pulse_ms > 0
  /\ now > last_pulse_ms
  /\ now - last_pulse_ms < DEBOUNCE_MS

\* C6, as claimed: two qualifying raw events less than DEBOUNCE_MS apart
\* produce exactly one accepted pulse and exactly one hook dispatch.
C6_ExactlyOne ==
  pair # NoPair => (pair.acc = 1 /\ pair.hk = 1)

\* C6, amended: two qualifying raw events less than DEBOUNCE_MS apart produce
\* at most one accepted pulse and at most one hook dispatch; exactly one
\* accepted pulse when the first is accepted, and exactly one hook dispatch
\* when the first is accepted in IDLE or EXTENDED.
C6_AtMostOne ==
  pair # NoPair
    => /\ pair.acc <= 1
       /\ pair.hk <= 1
       /\ pair.first_acc = 1 => pair.acc = 1
       /\ (pair.first_acc = 1 /\ pair.first_st # "ACTIVE") => pair.hk = 1

\* The first event of a close pair woke the machine up, the second was rejected.
C6_Witness ==
  /\ pair # NoPair
  /\ pair.first_acc = 1
  /\ pair.first_st = "IDLE"
  /\ pair.acc = 1
  /\ pair.hk = 1

\* C7: enter called with the current state changes neither the state nor the
\* state file and runs no hook.
C7_EnterSameIsNoOp ==
  [][last_op' = "enter_same"
       => UNCHANGED <<state, state_file, writes, write_failed, hooks>>]_vars

\* enter(IDLE) has just been called in IDLE.
C7_Witness ==
  /\ last_op = "enter_same"
  /\ pre_state = "IDLE"
  /\ state = "IDLE"

\* C8: after startup, as long as every write succeeded, the state file holds
\* 1 exactly when the state is ACTIVE and 0 otherwise, and every state
\* change writes the file once.
C8_StateFileTracksState ==
  /\ []((pc = "loop" /\ ~write_failed)
          => /\ state_file = 1 <=> state = "ACTIVE"
             /\ state # "ACTIVE" => state_file = 0)
  /\ [][state' # state => writes' = writes + 1]_vars

\* The file reads 0 in EXTENDED after the startup write and two rewrites.
C8_Witness ==
  /\ pc = "loop"
  /\ ~write_failed
  /\ state = "EXTENDED"
  /\ state_file = 0
  /\ writes = 3

\* C9: every state change runs the hooks once, from the directory and with
\* the name of the new state; a step without a state change runs none.
C9_HooksFollowStateChange ==
  [][/\ state' # state => hooks' = Append(hooks, HookOf(state'))
     /\ state' = state => hooks' = hooks]_vars

\* The three kinds of hooks have run, in the order of the transitions.
C9_Witness ==
  /\ state = "ACTIVE"
  /\ hooks = <<IdleHook, ExtendedHook, ActiveHook>>

\* C10: with idle=60 and extended=120, launched at t=0 and left alone, the
\* state is ACTIVE before 60 s, IDLE (idle hooks, file 0) from 60 s, EXTENDED
\* (extended hooks) from 180 s, and the key event at 200 s makes it ACTIVE at
\* once (active hooks, file 1).
C10_Scenario ==
  LET settled == ~tev /\ ~TimerExpired
      idle_at == ScnIdleS * 1000
      ext_at == (ScnIdleS + ScnExtendedS) * 1000
      key_done == now > ScnKeyMs \/ (now = ScnKeyMs /\ last_op = "on_activity")
  IN pc = "loop"
     => /\ now < idle_at
             => /\ state = "ACTIVE" /\ hooks = <<>>
                /\ ~write_failed => state_file = 1
        /\ (now >= idle_at /\ now < ext_at /\ settled)
             => /\ state = "IDLE" /\ hooks = <<IdleHook>>
                /\ ~write_failed => state_file = 0
        /\ (now >= ext_at /\ now <= ScnKeyMs /\ ~key_done /\ settled)
             => /\ state = "EXTENDED" /\ hooks = <<IdleHook, ExtendedHook>>
                /\ ~write_failed => state_file = 0
        /\ key_done
             => /\ state = "ACTIVE"
                /\ hooks = <<IdleHook, ExtendedHook, ActiveHook>>
                /\ ~write_failed => state_file = 1

\* The key event at 200 s has just been handled.
C10_Witness ==
  /\ now = ScnKeyMs
  /\ last_op = "on_activity"
  /\ pre_state = "EXTENDED"
  /\ state = "ACTIVE"
  /\ hooks = <<IdleHook, ExtendedHook, ActiveHook>>
  /\ state_file = 1

\* C11, as claimed: in every state, once the elapsed idle time is below
\* T_idle, a reevaluation eventually occurs and leaves the state ACTIVE.
C11_EventuallyReevaluatedActive ==
  \A s \in States :
    []((pc = "loop" /\ state = s /\ Elapsed < idle_s * 1000)
         => <>(last_op = "reevaluate" /\ state = "ACTIVE"))

\* C11, amended: every reevaluation that finds the elapsed idle time below
\* T_idle leaves the state ACTIVE; IDLE and EXTENDED are never found with the
\* elapsed idle time below T_idle, and in EXTENDED no timer is left to expire.
C11_ReevaluationBelowIdleIsActive ==
  /\ [][(last_op' = "reevaluate" /\ Elapsed < idle_s * 1000)
          => state' = "ACTIVE"]_vars
  /\ [](state # "ACTIVE" => Elapsed >= idle_s * 1000)
  /\ []((state = "EXTENDED" /\ ~tev) => tfd_expiry = Disarmed)

\* A stale timer expiry was handled right after an accepted pulse.
C11_Witness ==
  /\ last_op = "reevaluate"
  /\ pre_state = "ACTIVE"
  /\ state = "ACTIVE"
  /\ Elapsed < idle_s * 1000

\* ------------------------------------------------ claims on input events
\* The latest step classified an absolute-axis event.
HinAbs == hin.op = "event" /\ hin.ev.type = "EV_ABS"
HinHat == is_hat_abs(hin.ev.code)
\* Its distance from the value stored for the axis, and the axis' width.
HinDelta == Abs(hin.ev.value - hin.last)
HinWidth == IF hin.dz <= 0 THEN AXIS_DZ_MIN ELSE hin.dz
\* The device of the running call, as the step left it.
HinDev == devices[dev_index_by_fd(devices, hin.fd)]

\* C12, as claimed: an event of an observed stick axis calls on_activity if
\* and only if its distance from the stored value reaches the axis' width.
C12_DeadZoneDecides ==
  (HinAbs /\ ~HinHat /\ hin.seen) => (hin.call <=> HinDelta >= HinWidth)

\* C12, amended: below the width the event never calls on_activity; at or
\* above it the event calls on_activity if no pulse was made yet in the
\* batch, and is only drained otherwise.
C12_DeadZoneDecidesBeforePulse ==
  (HinAbs /\ ~HinHat /\ hin.seen)
    => /\ HinDelta < HinWidth => ~hin.call
       /\ (HinDelta >= HinWidth /\ ~hin.pulsed) => hin.call
       /\ hin.pulsed => ~hin.call

\* An event exactly at the width away from the stored value pulsed.
C12_Witness ==
  /\ HinAbs /\ ~HinHat /\ hin.seen
  /\ HinDelta = HinWidth
  /\ hin.call

\* C13, as claimed: an event of an observed direction-pad axis calls
\* on_activity if and only if its value differs from the stored one.
C13_HatPulsesIffChanged ==
  (HinAbs /\ HinHat /\ hin.seen) => (hin.call <=> hin.ev.value # hin.last)

\* C13, amended: an unchanged value never calls on_activity; a changed value
\* calls on_activity if no pulse was made yet in the batch, whatever the
\* dead-zone fraction and the axis' width, and is only drained otherwise.
C13_HatPulsesIffChangedBeforePulse ==
  (HinAbs /\ HinHat /\ hin.seen)
    => /\ hin.ev.value = hin.last => ~hin.call
       /\ (hin.ev.value # hin.last /\ ~hin.pulsed) => hin.call
       /\ hin.pulsed => ~hin.call

\* A direction-pad change far below every width pulsed, under a configured
\* fraction.
C13_Witness ==
  /\ HinAbs /\ HinHat /\ hin.seen
  /\ HinDelta > 0
  /\ HinDelta < AXIS_DZ_MIN
  /\ AXIS_DZ_PCT # DEFAULT_AXIS_DZ_PCT
  /\ hin.call

\* C14, as claimed: the first event of an axis is stored as the baseline and
\* calls nothing.
C14_FirstIsBaseline ==
  (HinAbs /\ ~hin.seen)
    => /\ ~hin.call
       /\ HinDev.abs_seen[hin.ev.code]
       /\ HinDev.abs_last[hin.ev.code] = hin.ev.value

\* C14, amended: the first event of an axis calls nothing; it is stored as
\* the baseline if no pulse was made yet in the batch, and is drained without
\* a trace otherwise, the axis staying unobserved.
C14_FirstIsBaselineBeforePulse ==
  (HinAbs /\ ~hin.seen)
    => /\ ~hin.call
       /\ ~hin.pulsed => /\ HinDev.abs_seen[hin.ev.code]
                         /\ HinDev.abs_last[hin.ev.code] = hin.ev.value
       /\ hin.pulsed => /\ ~HinDev.abs_seen[hin.ev.code]
                        /\ HinDev.abs_last[hin.ev.code] = hin.last

\* A first event farther from 0 than the width was stored and called nothing.
C14_Witness ==
  /\ HinAbs /\ ~hin.seen /\ ~hin.pulsed
  /\ ~HinHat
  /\ hin.ev.value >= HinWidth
  /\ ~hin.call
  /\ HinDev.abs_last[hin.ev.code] = hin.ev.value

\* C15, as claimed: every absolute-axis event is stored as the last value.
C15_LastIsLatest ==
  HinAbs => HinDev.abs_last[hin.ev.code] = hin.ev.value

\* C15, amended: the stored value changes only with the baseline and with an
\* event that calls on_activity; an event that does not qualify, or that is
\* drained after a pulse, leaves it, so that a delta is measured against the
\* baseline or the latest qualifying value.
C15_LastIsLatestQualifying ==
  HinAbs =>
    HinDev.abs_last[hin.ev.code] =
      IF hin.call \/ (~hin.seen /\ ~hin.pulsed) THEN hin.ev.value ELSE hin.last

\* An event inside the dead zone, at another value than the stored one,
\* left the stored value.
C15_Witness ==
  /\ HinAbs /\ hin.seen /\ ~hin.pulsed /\ ~hin.call
  /\ hin.ev.value # hin.last
  /\ HinDev.abs_last[hin.ev.code] = hin.last

\* C16: a handle_input call calls on_activity at most once; after the call
\* the events still read call nothing.
C16_OnePulsePerBatch ==
  /\ hin.calls <= 1
  /\ (hin.op = "event" /\ hin.pulsed) => ~hin.call
  /\ (hin.op = "event" /\ hin.call) => pulsed

\* A key event was read after the pulse of its batch, and called nothing.
C16_Witness ==
  /\ hin.op = "event"
  /\ hin.pulsed
  /\ hin.ev.type = "EV_KEY"
  /\ hin.calls = 1
  /\ hfd # NoFd

\* C17: a key or relative-motion event calls on_activity unless the batch
\* has pulsed; a sync event or an event of another type never does.  After
\* a call the latest accepted pulse is younger than the debounce interval.
C17_KeyRelQualify ==
  hin.op = "event"
    => /\ (hin.ev.type \in {"EV_KEY", "EV_REL"} /\ ~hin.pulsed) => hin.call
       /\ hin.ev.type \in {"EV_SYN", "EV_MSC"} => ~hin.call
       /\ hin.call => now - last_pulse_ms < DEBOUNCE_MS

\* A relative-motion event pulsed and was accepted.
C17_Witness ==
  /\ hin.op = "event"
  /\ hin.ev.type = "EV_REL"
  /\ hin.call
  /\ last_pulse_ms = now
  /\ now > 0

\* ------------------------------------------------- claims on the registry
\* The devices of a registry other than the one with this fd.
OtherDevs(devs, fd) == SelectSeq(devs, LAMBDA d : d.fd # fd)

\* C18: a handle_input call that ends on would-block removes nothing; one
\* that ends on a zero-length read or a read error removes the device of its
\* fd from the registry, the interest list and the open fds, and nothing
\* else; it touches no reactor state on the way out, and every device left
\* is still subscribed, so the loop goes on serving it.
C18_ReadEndRemovesOnlyThatDevice ==
  [][(hfd # NoFd /\ hfd' = NoFd)
       => /\ UNCHANGED smvars
          /\ hin'.end = "EAGAIN"
               => /\ devices' = devices
                  /\ subs' = subs
                  /\ open_fds' = open_fds
          /\ hin'.end # "EAGAIN"
               => /\ devices' = OtherDevs(devices, hfd)
                  /\ Len(devices') = Len(devices) - 1
                  /\ subs' = subs \ {hfd}
                  /\ open_fds' = open_fds \ {hfd}
                  /\ \A i \in 1..Len(devices') : devices'[i].fd \in subs']_vars

\* The device registered second hit end of file; the first is still served.
C18_Witness ==
  /\ hin.op = "end"
  /\ hin.end = "EOF"
  /\ hin.fd \notin subs
  /\ Len(devices) = 1
  /\ devices[1].fd # hin.fd
  /\ devices[1].fd < hin.fd
  /\ devices[1].fd \in subs

\* C19: handling hot-plug notifications changes neither the activity state,
\* nor last_activity_ms, nor last_pulse_ms, nor the timer, and runs no hook.
C19_HotplugLeavesStateMachine ==
  [][hin'.op = "inotify"
       => UNCHANGED <<state, last_activity_ms, last_pulse_ms, tfd_expiry, tev,
                      hooks, state_file, writes>>]_vars

\* A device was added while the state was IDLE.
C19_Witness ==
  /\ hin.op = "inotify"
  /\ state = "IDLE"
  /\ Len(devices) > hin.ndev

\* C20: removing by path or by fd a device that is not registered changes
\* nothing, and removing a device twice leaves what removing it once leaves.
C20_RemovalIdempotent ==
  /\ \A p \in Paths :
       /\ (\A i \in 1..Len(devices) : devices[i].path # p)
            => del_dev(Registry, p) = Registry
       /\ del_dev(del_dev(Registry, p), p) = del_dev(Registry, p)
  /\ \A fd \in DevFds :
       /\ (\A i \in 1..Len(devices) : devices[i].fd # fd)
            => del_dev_fd(Registry, fd) = Registry
       /\ del_dev_fd(del_dev_fd(Registry, fd), fd) = del_dev_fd(Registry, fd)

\* Removal is idempotent in every registry that holds a path at most once.
C20_IdempotentOnDistinctPaths ==
  (\A i, j \in 1..Len(devices) : devices[i].path = devices[j].path => i = j)
    => C20_RemovalIdempotent

\* C21: between handlers, the device fds in the interest list of the epoll
\* instance are exactly the fds of the registered devices, no two devices
\* share an fd, and no other device fd is open.
C21_SubscriptionsAreRegistry ==
  /\ subs = {devices[i].fd : i \in 1..Len(devices)}
  /\ \A i, j \in 1..Len(devices) : devices[i].fd = devices[j].fd => i = j
  /\ open_fds = subs

\* Two devices were registered and the first was removed by its fd.
C21_Witness ==
  /\ hin.op = "end"
  /\ hin.end # "EAGAIN"
  /\ Len(devices) = 1
  /\ devices[1].fd # hin.fd
  /\ subs = {devices[1].fd}
  /\ hin.fd < devices[1].fd

\* C22, as claimed: the registry holds at most one device per path.
C22_OneDevicePerPath ==
  \A i, j \in 1..Len(devices) : devices[i].path = devices[j].path => i = j

\* C23: whatever hooks were launched before, one that never terminates
\* included, the event loop can process every event that is ready: an input
\* pulse, a timer expiration (with the transition and the dispatch it
\* causes) and the queued hot-plug notifications.
C23_HooksNeverBlock ==
  pc = "loop" =>
    /\ ENABLED OnActivity
    /\ tev => ENABLED Reevaluate
    /\ (~tev /\ TimerExpired) => ENABLED TimerReady
    /\ inq # <<>> => ENABLED Inotify

\* A hook that never terminates was launched, and after it a later
\* transition has dispatched hooks with another argument.
C23_Witness ==
  /\ pc = "loop"
  /\ \E i, j \in 1..Len(procs) :
       /\ i < j
       /\ procs[i].kind = "hang"
       /\ procs[j].arg # procs[i].arg
  /\ last_op = "on_activity"
  /\ state = "ACTIVE"
  /\ pre_state = "EXTENDED"

\* A regular file whose owner may execute it, as stat reports it.
IsRegExec(e) == e.kind \notin {"noexec", "dir", "dangling"}

\* The names a dispatch has to launch from a root's directory.
ToLaunch(root, subdir) ==
  LET dir == hookfs[root][subdir]
  IN IF dir.exists
     THEN {e.name : e \in {x \in dir.entries : IsRegExec(x) /\ ~Hidden(x.name)}}
     ELSE {}

\* The children forked by the step.
Forked == SubSeq(procs', Len(procs) + 1, Len(procs'))

\* C24: a dispatch forks, for the primary root and then for the mirror root
\* if one is configured, the regular executable files of the state's
\* directory in ascending order of their names, each with the state's
\* argument; entries that are skipped or cannot be executed do not keep the
\* later ones from being forked.
C24_LaunchOrder ==
  [][hooks' # hooks =>
       LET h == hooks'[Len(hooks')]
           roots == IF HOOKS_MIRROR # "" THEN <<HOOKS_ROOT, HOOKS_MIRROR>>
                    ELSE <<HOOKS_ROOT>>
           rank(r) == CHOOSE k \in 1..Len(roots) : roots[k] = r
       IN /\ \A i \in 1..Len(Forked) :
               /\ Forked[i].subdir = h.subdir
               /\ Forked[i].arg = h.arg
               /\ \E k \in 1..Len(roots) : roots[k] = Forked[i].root
               /\ Forked[i].name \in ToLaunch(Forked[i].root, h.subdir)
          /\ \A k \in 1..Len(roots) : \A n \in ToLaunch(roots[k], h.subdir) :
               \E i \in 1..Len(Forked) :
                 Forked[i].root = roots[k] /\ Forked[i].name = n
          /\ \A i, j \in 1..Len(Forked) :
               i < j =>
                 \/ rank(Forked[i].root) < rank(Forked[j].root)
                 \/ /\ Forked[i].root = Forked[j].root
                    /\ LexLess(Forked[i].name, Forked[j].name)]_vars

\* A dispatch forked a file that cannot be executed and then the later file
\* of the primary root, then the files of the mirror root.
C24_Witness ==
  /\ Len(procs) >= 4
  /\ procs[1].root = HOOKS_ROOT /\ procs[1].kind = "badexec"
  /\ procs[2].root = HOOKS_ROOT /\ procs[2].name = <<50>>
  /\ procs[3].root = "mirror" /\ procs[3].name = <<49, 48>>
  /\ procs[4].root = "mirror" /\ procs[4].name = <<50>>
  /\ Len(hooks) = 1

\* C25: whatever idle= and extended= the configuration file holds, idle_s
\* and extended_s are each between 60 and 43200 once the configuration is
\* loaded, and no later step changes them.
C25_TimeoutsInRangeAndFixed ==
  /\ [](pc = "loop" => /\ idle_s \in MIN_TIMEOUT_S..MAX_TIMEOUT_S
                       /\ extended_s \in MIN_TIMEOUT_S..MAX_TIMEOUT_S)
  /\ [][pc = "loop" => idle_s' = idle_s /\ extended_s' = extended_s]_vars

\* Loaded with the largest idle timeout and the default extended timeout,
\* the reactor has taken a pulse after the clock has moved.
C25_Witness ==
  /\ pc = "loop"
  /\ idle_s = MAX_TIMEOUT_S
  /\ extended_s = DEFAULT_EXTENDED_S
  /\ last_op = "on_activity"
  /\ now > 0

\* C30: an accepted pulse and a reevaluation leave the timer armed for
\* max(T_idle - elapsed, 1) ms from now in ACTIVE, for
\* max(T_idle + T_ext - elapsed, 1) ms from now in IDLE, and disarmed in
\* EXTENDED, whatever deadline was pending before.
C30_TimerRearmed ==
  [][(\/ last_op' = "reevaluate"
      \/ last_op' = "on_activity" /\ now - last_pulse_ms >= DEBOUNCE_MS)
       => LET el == IF now' - last_activity_ms' > 0
                    THEN now' - last_activity_ms' ELSE 0
              idle_rem == idle_s' * 1000 - el
              ext_rem == (idle_s' + extended_s') * 1000 - el
          IN /\ state' = "ACTIVE"
                  => tfd_expiry' = now' + (IF idle_rem > 1 THEN idle_rem ELSE 1)
             /\ state' = "IDLE"
                  => tfd_expiry' = now' + (IF ext_rem > 1 THEN ext_rem ELSE 1)
             /\ state' = "EXTENDED" => tfd_expiry' = Disarmed]_vars

\* A late reevaluation has entered IDLE and armed the timer for what is left
\* of T_idle + T_ext since the last activity.
C30_Witness ==
  /\ last_op = "reevaluate"
  /\ state = "IDLE"
  /\ pre_state = "ACTIVE"
  /\ now - last_activity_ms > idle_s * 1000
  /\ tfd_expiry = last_activity_ms + (idle_s + extended_s) * 1000

\* C26, as claimed: V_RAW0 is written at most once in a run of the daemon,
\* only in an iteration that reads the raw capacity 0 while not charging, and
\* only after an earlier iteration has read a raw capacity above 10.
C26_Raw0LearnedOnceAtZeroAfterArming ==
  [][batd'.raw0_writes > batd.raw0_writes
       => /\ batd.raw0_writes = 0
          /\ batd'.obs.raw_capacity = 0
          /\ ~is_charging(batd'.obs.status)
          /\ batd.above]_vars

\* C26, the part that holds: V_RAW0 is written at most once in a run, never
\* while charging, and only after the raw capacity was read at 10 or above.
C26_Raw0WrittenOnceAfterArming ==
  [][batd'.raw0_writes > batd.raw0_writes
       => /\ batd.raw0_writes = 0
          /\ ~is_charging(batd'.obs.status)
          /\ batd'.raw0_armed = FALSE
          /\ batd.raw0_armed \/ batd'.obs.raw_capacity >= RAW0_ARM_THRESHOLD]_vars

\* C26: V_RAW0 was learned from the median voltage at raw capacity 0 although
\* the capacity read before was 10, not above 10.
C26_LearnedWithoutReadingAbove10 ==
  /\ batd.obs.raw0 = "learn"
  /\ batd.obs.raw_capacity = 0
  /\ ~batd.above
  /\ batd.map.V_RAW0 = batd.obs.v_med

\* The step is a pass of the voltage-only daemon's loop body.
VbStep == vbat'.iter > vbat.iter

\* The new V_FULL lies on the side of the old one where the smoothed voltage
\* of the iteration is, and not beyond it.
TowardsEma ==
  LET old == vbat.map.V_FULL
      new == vbat'.map.V_FULL
      ema == vbat'.obs.voltage_ema_mv
  IN \/ old < new /\ new <= ema
     \/ ema <= new /\ new < old

C28_BucketHooksOnNewBucket ==
  [][(VbStep /\ vbat'.obs.hooks = "bucket")
       => /\ vbat'.visible_percent # vbat.visible_percent
          /\ vbat'.visible_percent % 5 = 0
          /\ vbat'.visible_percent # vbat.last_bucket
          /\ vbat'.last_bucket = vbat'.visible_percent]_vars

\* The hooks have run for a bucket after they had run for another one.
C28_Witness ==
  /\ vbat.pc = "sleep"
  /\ vbat.obs.hooks = "bucket"
  /\ vbat.obs.old_bucket >= 0
  /\ vbat.obs.old_bucket # vbat.last_bucket
  /\ vbat.visible_percent = vbat.last_bucket

\* The interval that has to pass between two writes of the visible percent.
RequiredInterval ==
  IF vbat'.internal_percent <= LOW_PCT_THRESHOLD
       \/ vbat'.obs.status \in {"Charging", "Full"}
  THEN WRITE_INTERVAL \div 2 ELSE WRITE_INTERVAL

C31_Calibration ==
  /\ \A i \in 1..Len(devices), c \in Axes :
       LET ai == absinfo[devices[i].path][c]
           span == ai.maximum - ai.minimum
           dz == devices[i].abs_dz[c]
           x == span * AXIS_DZ_PCT
       IN ai.ok =>
            /\ is_hat_abs(c) => dz = 0
            /\ (~is_hat_abs(c) /\ span > 0) =>
                 \/ dz = 64 /\ x < 64500
                 \/ dz > 64 /\ 1000 * dz - 500 <= x /\ x < 1000 * dz + 500
            /\ (~is_hat_abs(c) /\ span <= 0) => dz = 128
  /\ (HinAbs /\ ~HinHat /\ hin.seen /\ hin.dz <= 0 /\ ~hin.pulsed)
       => (hin.call <=> HinDelta >= 64)

\* A stick without a descriptor, next to a direction pad calibrated to 0,
\* pulsed at the distance 64 from its stored value.
C31_Witness ==
  /\ HinAbs /\ ~HinHat /\ hin.seen /\ hin.dz <= 0 /\ ~hin.pulsed
  /\ HinDelta = 64
  /\ hin.call
  /\ absinfo["event0"][ABS_HAT0X].ok
  /\ Len(devices) = 1
  /\ devices[1].abs_dz[ABS_HAT0X] = 0

\* A stick of a malformed descriptor got the fallback width.
C31_FallbackWitness ==
  /\ Len(devices) = 1
  /\ absinfo["event0"][0].ok
  /\ absinfo["event0"][0].maximum < absinfo["event0"][0].minimum
  /\ devices[1].abs_dz[0] = 128

\* C32: once main has scheduled the timer, whenever no handle_input call is
\* running, the timer is armed or its expiry is pending if the state is
\* ACTIVE or IDLE, and it is disarmed with no expiry pending if the state is
\* EXTENDED, whatever pulses, re-evaluations and hot-plug events came before.
C32_DeadlineWhileNotExtended ==
  (pc = "loop" /\ hfd = NoFd)
    => /\ state \in {"ACTIVE", "IDLE"} => (tfd_expiry # Disarmed \/ tev)
       /\ state = "EXTENDED" => (tfd_expiry = Disarmed /\ ~tev)

\* In IDLE after a re-evaluation, with a device registered and the
\* deadline of EXTENDED ahead.
C32_Witness ==
  /\ pc = "loop" /\ hfd = NoFd
  /\ state = "IDLE"
  /\ last_op = "reevaluate"
  /\ devices # <<>>
  /\ tfd_expiry # Disarmed /\ tfd_expiry > now

\* C33: once no pulse is accepted any more and the timer expiries are
\* handled, the state becomes EXTENDED and stays so; EXTENDED is entered
\* from IDLE only, ACTIVE is left for IDLE only, and EXTENDED is left only
\* by a step that accepts a pulse.
C33_QuietEndsExtended ==
  /\ <>[](state = "EXTENDED")
  /\ [][(state' = "EXTENDED" /\ state # "EXTENDED") => state = "IDLE"]_vars
  /\ [][(state = "ACTIVE" /\ state' # "ACTIVE") => state' = "IDLE"]_vars
  /\ [][(state = "EXTENDED" /\ state' # "EXTENDED")
          => (last_op' = "on_activity" /\ last_pulse_ms' = now
              /\ last_pulse_ms # now)]_vars

\* EXTENDED was reached a second time, after a pulse had ended the first.
C33_Witness ==
  /\ state = "EXTENDED"
  /\ last_op = "reevaluate"
  /\ pre_state = "IDLE"
  /\ last_pulse_ms >= (MIN_TIMEOUT_S + MIN_TIMEOUT_S) * 1000
  /\ now > QuietPulseEndMs

\* C34: in IDLE and in EXTENDED the debounce interval since the last
\* accepted pulse is over, so a qualifying event that arrives there is
\* accepted and wakes the state up: the last accepted pulse is never later
\* than last_activity_ms, the idle timeout is at least 60 s, and the state is
\* not ACTIVE only when the idle timeout has passed since last_activity_ms.
C34_WakeupNeverDebounced ==
  /\ [](pc = "loop" =>
          /\ last_pulse_ms <= last_activity_ms
          /\ idle_s >= 60
          /\ state # "ACTIVE" => /\ now - last_activity_ms >= idle_s * 1000
                                 /\ now - last_pulse_ms >= 3000)
  /\ [][(last_op' = "on_activity" /\ state # "ACTIVE")
          => (state' = "ACTIVE" /\ last_pulse_ms' = now
              /\ last_activity_ms' = now)]_vars

\* An event woke EXTENDED up.
C34_Witness ==
  /\ last_op = "on_activity"
  /\ pre_state = "EXTENDED"
  /\ state = "ACTIVE"
  /\ last_pulse_ms = now

\* C35: an event rejected by the debounce leaves last_activity_ms and the
\* timer alone; the step from ACTIVE to IDLE is taken when the idle timeout
\* has passed since the last accepted pulse, which is more than the idle
\* timeout less 3 s after the latest call of on_activity, accepted or not;
\* so as long as the latest call is at most that long ago, the state is
\* ACTIVE.
C35_RejectedEventsDoNotRestart ==
  /\ [][(last_op' = "on_activity" /\ now - last_pulse_ms < 3000)
          => UNCHANGED <<last_activity_ms, last_pulse_ms, tfd_expiry, state>>]_vars
  /\ [][(state = "ACTIVE" /\ state' = "IDLE")
          => /\ now - last_pulse_ms >= idle_s * 1000
             /\ now - last_activity_ms >= idle_s * 1000
             /\ last_raw_ms # NoRaw
                  => now - last_raw_ms > idle_s * 1000 - 3000]_vars
  /\ []((pc = "loop" /\ last_raw_ms # NoRaw
          /\ now - last_raw_ms <= idle_s * 1000 - 3000)
         => state = "ACTIVE")

\* IDLE was entered when the idle timeout had passed since the accepted
\* pulse, less than that since an event the debounce rejected.
C35_Witness ==
  /\ last_op = "reevaluate"
  /\ pre_state = "ACTIVE"
  /\ state = "IDLE"
  /\ last_pulse_ms > 0
  /\ last_raw_ms > last_pulse_ms
  /\ now - last_raw_ms < idle_s * 1000

\* What write_state puts into the state file for the state s.
StateValue(s) == IF s = "ACTIVE" THEN 1 ELSE 0

C37_StaleFdIgnored ==
  /\ [][hin'.op = "nodev"
          => /\ UNCHANGED <<smvars, last_raw_ms, devices, subs, open_fds, nodes,
                            inq, AXIS_DZ_PCT>>
             /\ hfd' = NoFd]_vars
  /\ [](hin.op = "nodev" => (pc = "loop" /\ hfd = NoFd /\ ENABLED HotBegin))

\* The inotify handler removed one of two devices, and the next event was
\* for the fd of the removed one.
C37_Witness ==
  /\ hin.op = "nodev"
  /\ hin.after = "inotify"
  /\ hin.ndev = 2
  /\ Len(devices) = 1
  /\ devices[1].fd # hin.fd

\* C38: step_limit returns target when last is negative; otherwise its
\* result is at most 1 away from last, lies between last and target, is not
\* below last when charging and not above last when not charging.
C38_StepLimit ==
  fcall.pc = "done"
    => LET last == fcall.last
           target == fcall.target
           r == fcall.r
       IN /\ last < 0 => r = target
          /\ last >= 0 =>
               /\ Abs(r - last) <= 1
               /\ (last <= r /\ r <= target) \/ (target <= r /\ r <= last)
               /\ fcall.charging => r >= last
               /\ ~fcall.charging => r <= last

\* A call that rose by one towards a target further up, while charging.
C38_Witness ==
  /\ fcall.pc = "done"
  /\ fcall.fn = "bool"
  /\ fcall.charging
  /\ fcall.last >= 0
  /\ fcall.target > fcall.last + 1
  /\ fcall.r = fcall.last + 1

\* C39: in the first battery daemon of part_001, a SIGUSR1 received during
\* the sleep between two iterations ends the sleep, and the iteration that
\* follows snaps: its percent is the blended target, whatever step_limit
\* would allow.
C39_WakeupSnapsNextIteration ==
  (batd.pc = "sleep" /\ batd.woken \in {"taken", "left"})
    => batd.obs.percent = batd.obs.target

\* An iteration after a wake-up whose flag the sleep loop took: it did not
\* snap and its percent is one step from the one before, short of the target.
C39_WokenButStepped ==
  /\ batd.pc = "sleep"
  /\ batd.woken = "taken"
  /\ ~batd.obs.snap
  /\ batd.obs.percent # batd.obs.target

\* What holds: every SIGUSR1 during the sleep ends it, and the iteration that
\* follows snaps when the flag was still set as the loop body began.
C39_LeftFlagSnaps ==
  /\ batd.woken \in {"taken", "left"} => batd.pc \in {"body", "sleep"}
  /\ (batd.pc = "sleep" /\ batd.woken = "left")
       => /\ batd.obs.snap
          /\ batd.obs.percent = batd.obs.target

\* C40: in every battery-monitor variant run_hook_file returns, and it waits
\* no longer for the hook than the budget of MAX_MS, also when the hook never
\* exits.
C40_RunHookFileBounded ==
  /\ [](fcall.pc = "wait" => fcall.elapsed <= MAX_MS)
  /\ <>(fcall.pc = "done")

\* A daemon of part_001 still waits for a hook that never exits, after more
\* than the budget.
C40_BlockedBeyondBudget ==
  /\ fcall.pc = "wait"
  /\ fcall.variant \in {"part_001", "part_001_second"}
  /\ fcall.hangs
  /\ fcall.elapsed > MAX_MS

\* What holds: run_hook_file of batteryplus.cpp returns, after at most
\* MAX_MS of polls, and returns -1 when it had to kill the hook; in part_001
\* it returns when the hook exits by itself.
C40_BoundedInBatteryPlus ==
  /\ [](fcall.variant = "batteryplus" /\ fcall.pc = "wait"
          => fcall.elapsed <= MAX_MS /\ fcall.waited = fcall.elapsed)
  /\ [](fcall.variant = "batteryplus" /\ fcall.pc = "done" /\ fcall.hangs
          /\ fcall.fork_ok => fcall.r = "-1" /\ fcall.child = "reaped")
  /\ (fcall.variant = "batteryplus" => <>(fcall.pc = "done"))
  /\ [](fcall.pc = "wait" /\ fcall.child = "exited" => <>(fcall.pc = "done"))

====
